---- MODULE Spec2Model ----
(***************************************************************************)
(* A model of loof, the lsof replacement: the filter engine (filter.rs),   *)
(* the pipeline driver (main.rs: main, run_once) and the output formatter  *)
(* (output.rs).                                                            *)
(*                                                                         *)
(* Text is a sequence of one-character strings; Option<T> is a sequence of *)
(* length 0 (None) or 1 (Some); Result<T> is a record with an `ok` flag.   *)
(***************************************************************************)
EXTENDS Integers, Sequences, FiniteSets, TLC

VARIABLES
    args,     \* CliArgs, as parsed by clap from the command line
    ktable,   \* the kernel's process table, in enumeration order
    pc,       \* position of main / run_once
    cfg,      \* Option<FilterConfig>: set by FilterConfig::from_cli
    procs,    \* run_once: `processes`
    idx,      \* run_once: position of `for proc in &mut processes`
    calls,    \* history: the list_open_files calls of this pass, with results
    out,      \* stdout of the current pass, one entry per line
    config,     \* ProviderConfig of the provider under study
    req,        \* the provider operation under study and its pid
    ppc,        \* position of the provider operation
    kernel,     \* history: what procfs answered to this operation
    socket_map, \* list_open_files: `socket_map`
    lof_results, \* list_open_files: `results`
    syscalls,   \* history: the stat, lstat and readlink calls made, with outcome
    ret,        \* Option<Result>: what the provider operation returned
    raw_args,   \* main: `raw_args`, the tokens of std::env::args()
    processed,  \* main: Option of `processed`, what preprocess_args returned
    probe,      \* Option: one descriptor handed to matches_file, with the answer
    app         \* Option<AppState>: run_tui's `state`

\* the state of main and run_once
mvars == <<args, ktable, pc, cfg, procs, idx, calls, out>>
\* the state of a provider operation studied on its own
pvars == <<config, req, ppc, kernel, socket_map, lof_results, syscalls, ret>>
\* the state of the argument preprocessing, of a call of matches_file studied
\* on its own, and of the interactive mode
tvars == <<raw_args, processed, probe, app>>
vars == <<mvars, pvars, tvars>>

\* no preprocessing, no call of matches_file on its own, no interactive mode
OthersIdle ==
    /\ raw_args = << >>
    /\ processed = << >>
    /\ probe = << >>
    /\ app = << >>

\* no provider operation is under study
ProviderIdle ==
    /\ config = [avoid_stat |-> FALSE, follow_symlinks |-> FALSE]
    /\ req = << >>
    /\ ppc = "idle"
    /\ kernel = << >>
    /\ socket_map = << >>
    /\ lof_results = << >>
    /\ syscalls = << >>
    /\ ret = << >>

(***************************************************************************)
(* Bounds of the model.                                                    *)
(***************************************************************************)
\* at most this many options are given on one command line
MaxOpts == 2
\* at most this many descriptors are returned by one list_open_files call
MaxFiles == 2
\* pids and pgids of the processes the filters are applied to: 1..MaxId
MaxId == 2
\* at most this many entries are in the descriptor table the provider walks
MaxFds == 2

(***************************************************************************)
(* Option and text helpers.                                                *)
(***************************************************************************)
None == << >>
Some(x) == <<x>>
IsSome(o) == Len(o) = 1
IsNone(o) == Len(o) = 0
Unwrap(o) == o[1]

Digits == <<"0", "1", "2", "3", "4", "5", "6", "7", "8", "9">>
IsDigit(c) == \E d \in 1..10 : Digits[d] = c
DigitVal(c) == (CHOOSE d \in 1..10 : Digits[d] = c) - 1
IsSpace(c) == c = " "

Contains(list, x) == \E k \in DOMAIN list : list[k] = x

\* str::trim
RECURSIVE TrimStart(_)
TrimStart(s) ==
    IF s # << >> /\ IsSpace(Head(s)) THEN TrimStart(Tail(s)) ELSE s
RECURSIVE TrimEnd(_)
TrimEnd(s) ==
    IF s # << >> /\ IsSpace(s[Len(s)]) THEN TrimEnd(SubSeq(s, 1, Len(s) - 1)) ELSE s
Trim(s) == TrimEnd(TrimStart(s))

\* str::starts_with, str::strip_prefix, str::contains, str::find
StartsWith(s, p) == Len(p) <= Len(s) /\ SubSeq(s, 1, Len(p)) = p
StripPrefix(s, p) == SubSeq(s, Len(p) + 1, Len(s))
EndsWith(s, p) == Len(p) <= Len(s) /\ SubSeq(s, Len(s) - Len(p) + 1, Len(s)) = p
StrContains(s, p) ==
    \E k \in 0..(Len(s) - Len(p)) : SubSeq(s, k + 1, k + Len(p)) = p
\* str::find(..).unwrap_or(len): index (from 0) of the first character that is
\* in `stops`, or the length
FindOrLen(s, stops) ==
    IF \E k \in DOMAIN s : s[k] \in stops
    THEN (CHOOSE k \in DOMAIN s : s[k] \in stops /\ \A j \in 1..(k - 1) : s[j] \notin stops) - 1
    ELSE Len(s)
\* the number of leading ASCII digits: find(|c| !c.is_ascii_digit()).unwrap_or(len)
RECURSIVE DigitPrefixLen(_)
DigitPrefixLen(s) ==
    IF s # << >> /\ IsDigit(Head(s)) THEN 1 + DigitPrefixLen(Tail(s)) ELSE 0

\* str::split(',')
RECURSIVE Split(_, _)
Split(s, sep) ==
    LET n == FindOrLen(s, {sep})
    IN  IF n = Len(s) THEN <<s>>
        ELSE <<SubSeq(s, 1, n)>> \o Split(SubSeq(s, n + 2, Len(s)), sep)

\* str::to_uppercase, on the letters the model uses
Lower == <<"t", "c", "p", "u", "d", "k", "m", "g", "b", "x">>
Upper == <<"T", "C", "P", "U", "D", "K", "M", "G", "B", "X">>
UpperChar(c) ==
    IF \E k \in DOMAIN Lower : Lower[k] = c
    THEN Upper[CHOOSE k \in DOMAIN Lower : Lower[k] = c]
    ELSE c
ToUppercase(s) == [k \in DOMAIN s |-> UpperChar(s[k])]

\* integer Display: decimal digits
RECURSIVE ToDecimal(_)
ToDecimal(n) ==
    IF n < 10 THEN <<Digits[n + 1]>>
    ELSE ToDecimal(n \div 10) \o <<Digits[(n % 10) + 1]>>

\* <uN as FromStr>::from_str: an optional '+', then one or more digits, in range
RECURSIVE DigitsValue(_, _)
DigitsValue(s, acc) ==
    IF s = << >> THEN acc ELSE DigitsValue(Tail(s), acc * 10 + DigitVal(Head(s)))
RECURSIVE StripZeros(_)
StripZeros(s) ==
    IF Len(s) > 1 /\ Head(s) = "0" THEN StripZeros(Tail(s)) ELSE s
\* the largest value of the type, in decimal: u16::MAX, u32::MAX, u64::MAX
MaxDecimal(bits) ==
    CASE bits = 16 -> <<"6", "5", "5", "3", "5">>
      [] bits = 32 -> <<"4", "2", "9", "4", "9", "6", "7", "2", "9", "5">>
      [] bits = 64 -> <<"1", "8", "4", "4", "6", "7", "4", "4", "0", "7",
                        "3", "7", "0", "9", "5", "5", "1", "6", "1", "5">>
\* a > b for two digit strings without leading zeros
DecimalGreater(a, b) ==
    \/ Len(a) > Len(b)
    \/ /\ Len(a) = Len(b)
       /\ \E k \in DOMAIN a :
             /\ DigitVal(a[k]) > DigitVal(b[k])
             /\ \A j \in 1..(k - 1) : a[j] = b[j]
ParseUnsigned(s, bits) ==
    LET body == IF s # << >> /\ Head(s) = "+" THEN Tail(s) ELSE s
    IN  IF body = << >> \/ \E k \in DOMAIN body : ~IsDigit(body[k])
        THEN [ok |-> FALSE, v |-> 0]
        ELSE IF DecimalGreater(StripZeros(body), MaxDecimal(bits))
             THEN [ok |-> FALSE, v |-> 0]
             ELSE [ok |-> TRUE, v |-> DigitsValue(body, 0)]

(***************************************************************************)
(* filter.rs: the parsers of the selection grammar.                        *)
(***************************************************************************)
EmptyList == [include |-> << >>, exclude |-> << >>]

\* the token loop of parse_pid_filter / parse_pgid_filter
RECURSIVE ParseIdTokens(_, _)
ParseIdTokens(tokens, filter) ==
    IF tokens = << >> THEN [ok |-> TRUE, v |-> filter]
    ELSE LET token == Trim(Head(tokens))
         IN  IF token = << >> THEN ParseIdTokens(Tail(tokens), filter)
             ELSE IF StartsWith(token, <<"^">>)
                  THEN LET r == ParseUnsigned(StripPrefix(token, <<"^">>), 32)
                       IN  IF ~r.ok THEN [ok |-> FALSE, v |-> EmptyList]
                           ELSE ParseIdTokens(Tail(tokens),
                                  [filter EXCEPT !.exclude = Append(@, r.v)])
                  ELSE LET r == ParseUnsigned(token, 32)
                       IN  IF ~r.ok THEN [ok |-> FALSE, v |-> EmptyList]
                           ELSE ParseIdTokens(Tail(tokens),
                                  [filter EXCEPT !.include = Append(@, r.v)])

parse_pid_filter(s) == ParseIdTokens(Split(s, ","), EmptyList)

parse_pgid_filter(s) == ParseIdTokens(Split(s, ","), EmptyList)

RECURSIVE ParseUserTokens(_, _)
ParseUserTokens(tokens, filter) ==
    IF tokens = << >> THEN filter
    ELSE LET token == Trim(Head(tokens))
         IN  IF token = << >> THEN ParseUserTokens(Tail(tokens), filter)
             ELSE IF StartsWith(token, <<"^">>)
                  THEN ParseUserTokens(Tail(tokens),
                         [filter EXCEPT !.exclude = Append(@, StripPrefix(token, <<"^">>))])
                  ELSE ParseUserTokens(Tail(tokens),
                         [filter EXCEPT !.include = Append(@, token)])

parse_user_filter(s) == ParseUserTokens(Split(s, ","), EmptyList)

parse_command_filter(s) ==
    LET token == Trim(s)
    IN  IF token = << >> THEN EmptyList
        ELSE IF StartsWith(token, <<"^">>)
             THEN [EmptyList EXCEPT !.exclude = <<StripPrefix(token, <<"^">>)>>]
             ELSE [EmptyList EXCEPT !.include = <<token>>]

\* u64 arithmetic: a value is four 16-bit limbs, the low one first
U64Of(n) == <<n % 65536, n \div 65536, 0, 0>>
\* limbs * m + carry, for m <= 1024: the limbs of the product, then the
\* carry out of the top limb
RECURSIVE MulLimbs(_, _, _)
MulLimbs(limbs, m, carry) ==
    IF limbs = << >> THEN <<carry>>
    ELSE <<(Head(limbs) * m + carry) % 65536>>
         \o MulLimbs(Tail(limbs), m, (Head(limbs) * m + carry) \div 65536)
\* a < b
U64Less(a, b) ==
    \E k \in 1..4 : a[k] < b[k] /\ \A j \in (k + 1)..4 : a[j] = b[j]
\* <u64 as FromStr>::from_str on a string of digits: Err when empty or
\* above u64::MAX
RECURSIVE ParseU64(_, _)
ParseU64(s, acc) ==
    IF s = << >> THEN [ok |-> TRUE, v |-> acc]
    ELSE IF MulLimbs(acc, 10, DigitVal(Head(s)))[5] # 0 THEN [ok |-> FALSE, v |-> acc]
    ELSE ParseU64(Tail(s), SubSeq(MulLimbs(acc, 10, DigitVal(Head(s))), 1, 4))
\* base * multiplier in u64: the factors 1024 of the multiplier are applied
\* one at a time; `v` is the product modulo 2^64 and `overflow` tells whether
\* the product left the 64 bits
RECURSIVE MulPow1024(_, _)
MulPow1024(v, n) ==
    IF n = 0 THEN [v |-> v, overflow |-> FALSE]
    ELSE LET r == MulLimbs(v, 1024, 0)
             rest == MulPow1024(SubSeq(r, 1, 4), n - 1)
         IN  [v |-> rest.v, overflow |-> r[5] # 0 \/ rest.overflow]

\* the multiplier of a size suffix; 0 stands for the `_ => return None` arm
SizeMultiplier(suffix) ==
    LET u == ToUppercase(suffix)
    IN  CASE u = << >> -> 1
          [] u = <<"K">> \/ u = <<"K", "B">> -> 1024
          [] u = <<"M">> \/ u = <<"M", "B">> -> 1048576
          [] u = <<"G">> \/ u = <<"G", "B">> -> 1073741824
          [] OTHER -> 0

\* parse_size_filter up to its last expression: whether a SizeFilter is
\* built, its op, and base * multiplier
SizeProduct(spec) ==
    LET s == Trim(spec)
        op == IF StartsWith(s, <<"+">>) THEN "GreaterThan"
              ELSE IF StartsWith(s, <<"-">>) THEN "LessThan" ELSE "Exact"
        rest == Trim(IF op = "Exact" THEN s ELSE Tail(s))
        num_end == DigitPrefixLen(rest)
        num_str == SubSeq(rest, 1, num_end)
        suffix == SubSeq(rest, num_end + 1, Len(rest))
        base == IF num_str = << >> THEN [ok |-> FALSE, v |-> U64Of(0)]
                ELSE ParseU64(num_str, U64Of(0))
        multiplier == SizeMultiplier(suffix)
        power == CASE multiplier = 1024 -> 1 [] multiplier = 1048576 -> 2
                   [] multiplier = 1073741824 -> 3 [] OTHER -> 0
        product == IF base.ok THEN MulPow1024(base.v, power)
                   ELSE [v |-> base.v, overflow |-> FALSE]
    IN  [some |-> s # << >> /\ base.ok /\ multiplier # 0, op |-> op,
         bytes |-> product.v, overflow |-> product.overflow]

\* Option<SizeFilter>; on overflow of base * multiplier, what a build without
\* overflow checks returns
parse_size_filter(spec) ==
    LET r == SizeProduct(spec)
    IN  IF r.some THEN Some([op |-> r.op, bytes |-> r.bytes]) ELSE None

\* base * multiplier leaves the 64 bits: a build with overflow checks panics
\* ("attempt to multiply with overflow")
size_filter_overflows(a) ==
    /\ IsSome(a.size_filter)
    /\ SizeProduct(Unwrap(a.size_filter)).some
    /\ SizeProduct(Unwrap(a.size_filter)).overflow

DefaultInet == [protocol |-> None, host |-> None, port |-> None, ip_version |-> None]

\* parse_inet_filter with the protocol kept as typed
parse_inet_filterAsTyped(s) ==
    LET hasVer == StartsWith(s, <<"4">>) \/ StartsWith(s, <<"6">>)
        r1 == IF hasVer THEN Tail(s) ELSE s
        proto_end == FindOrLen(r1, {"@", ":"})
        r2 == SubSeq(r1, proto_end + 1, Len(r1))
        hasAt == StartsWith(r2, <<"@">>)
        r3 == IF hasAt THEN Tail(r2) ELSE r2
        host_end == IF hasAt THEN FindOrLen(r3, {":"}) ELSE 0
        r4 == SubSeq(r3, host_end + 1, Len(r3))
        port == IF StartsWith(r4, <<":">>) THEN ParseUnsigned(Tail(r4), 16)
                ELSE [ok |-> FALSE, v |-> 0]
    IN  IF s = << >> THEN DefaultInet
        ELSE [protocol |-> IF proto_end > 0
                           THEN Some(SubSeq(r1, 1, proto_end)) ELSE None,
              host |-> IF hasAt /\ host_end > 0 THEN Some(SubSeq(r3, 1, host_end)) ELSE None,
              port |-> IF port.ok THEN Some(port.v) ELSE None,
              ip_version |-> IF hasVer THEN Some(DigitVal(Head(s))) ELSE None]

parse_inet_filter(s) ==
    LET hasVer == StartsWith(s, <<"4">>) \/ StartsWith(s, <<"6">>)
        r1 == IF hasVer THEN Tail(s) ELSE s
        proto_end == FindOrLen(r1, {"@", ":"})
        r2 == SubSeq(r1, proto_end + 1, Len(r1))
        hasAt == StartsWith(r2, <<"@">>)
        r3 == IF hasAt THEN Tail(r2) ELSE r2
        host_end == IF hasAt THEN FindOrLen(r3, {":"}) ELSE 0
        r4 == SubSeq(r3, host_end + 1, Len(r3))
        port == IF StartsWith(r4, <<":">>) THEN ParseUnsigned(Tail(r4), 16)
                ELSE [ok |-> FALSE, v |-> 0]
    IN  IF s = << >> THEN DefaultInet
        ELSE [protocol |-> IF proto_end > 0
                           THEN Some(ToUppercase(SubSeq(r1, 1, proto_end))) ELSE None,
              host |-> IF hasAt /\ host_end > 0 THEN Some(SubSeq(r3, 1, host_end)) ELSE None,
              port |-> IF port.ok THEN Some(port.v) ELSE None,
              ip_version |-> IF hasVer THEN Some(DigitVal(Head(s))) ELSE None]

(***************************************************************************)
(* filter.rs: FilterConfig.                                                *)
(***************************************************************************)
\* Result<FilterConfig>
from_cli(a) ==
    LET pids == IF IsSome(a.pid) THEN parse_pid_filter(Unwrap(a.pid))
                ELSE [ok |-> TRUE, v |-> EmptyList]
        pgids == IF IsSome(a.pgid) THEN parse_pgid_filter(Unwrap(a.pgid))
                 ELSE [ok |-> TRUE, v |-> EmptyList]
    IN  IF ~pids.ok \/ ~pgids.ok THEN [ok |-> FALSE, v |-> None]
        ELSE [ok |-> TRUE,
              v |-> Some([
                pids |-> IF IsSome(a.pid) THEN Some(pids.v) ELSE None,
                pgids |-> IF IsSome(a.pgid) THEN Some(pgids.v) ELSE None,
                users |-> IF IsSome(a.user)
                          THEN Some(parse_user_filter(Unwrap(a.user))) ELSE None,
                commands |-> IF IsSome(a.command)
                             THEN Some(parse_command_filter(Unwrap(a.command))) ELSE None,
                inet |-> IF IsSome(a.inet)
                         THEN Some(parse_inet_filter(Unwrap(a.inet))) ELSE None,
                dir_tree |-> a.dir_tree,
                dir |-> a.dir,
                names |-> a.names,
                and_mode |-> a.and_mode,
                size_filter |-> IF IsSome(a.size_filter)
                                THEN parse_size_filter(Unwrap(a.size_filter)) ELSE None])]

\* a pid check that looks at the include list only
check_pidIncludeOnly(c, proc) ==
    IF IsNone(c.pids) THEN TRUE
    ELSE LET f == Unwrap(c.pids)
         IN  f.include = << >> \/ Contains(f.include, proc.pid)

check_pid(c, proc) ==
    IF IsNone(c.pids) THEN TRUE
    ELSE LET f == Unwrap(c.pids)
         IN  IF Contains(f.exclude, proc.pid) THEN FALSE
             ELSE IF f.include = << >> THEN TRUE
             ELSE Contains(f.include, proc.pid)

\* a pgid check that lets every process without a pgid through
check_pgidNoneAccepted(c, proc) ==
    IF IsNone(c.pgids) THEN TRUE
    ELSE LET f == Unwrap(c.pgids)
         IN  IF IsNone(proc.pgid) THEN TRUE
             ELSE /\ ~Contains(f.exclude, Unwrap(proc.pgid))
                  /\ (f.include = << >> \/ Contains(f.include, Unwrap(proc.pgid)))

check_pgid(c, proc) ==
    IF IsNone(c.pgids) THEN TRUE
    ELSE LET f == Unwrap(c.pgids)
         IN  IF IsNone(proc.pgid) THEN f.include = << >>
             ELSE IF Contains(f.exclude, Unwrap(proc.pgid)) THEN FALSE
             ELSE IF f.include = << >> THEN TRUE
             ELSE Contains(f.include, Unwrap(proc.pgid))

check_user(c, proc) ==
    IF IsNone(c.users) THEN TRUE
    ELSE LET f == Unwrap(c.users)
         IN  IF Contains(f.exclude, proc.user) THEN FALSE
             ELSE IF f.include = << >> THEN TRUE
             ELSE Contains(f.include, proc.user)

check_command(c, proc) ==
    IF IsNone(c.commands) THEN TRUE
    ELSE LET f == Unwrap(c.commands)
         IN  IF \E k \in DOMAIN f.exclude : StartsWith(proc.comm, f.exclude[k]) THEN FALSE
             ELSE IF f.include = << >> THEN TRUE
             ELSE \E k \in DOMAIN f.include : StartsWith(proc.comm, f.include[k])

\* a composition that folds the four verdicts without asking which are set
matches_processUnguarded(c, proc) ==
    IF IsNone(c.pids) /\ IsNone(c.pgids) /\ IsNone(c.users) /\ IsNone(c.commands)
    THEN TRUE
    ELSE IF c.and_mode
         THEN /\ check_pid(c, proc) /\ check_pgid(c, proc)
              /\ check_user(c, proc) /\ check_command(c, proc)
         ELSE \/ check_pid(c, proc) \/ check_pgid(c, proc)
              \/ check_user(c, proc) \/ check_command(c, proc)

matches_process(c, proc) ==
    IF IsNone(c.pids) /\ IsNone(c.pgids) /\ IsNone(c.users) /\ IsNone(c.commands)
    THEN TRUE
    ELSE IF c.and_mode
         THEN /\ (IsSome(c.pids) => check_pid(c, proc))
              /\ (IsSome(c.pgids) => check_pgid(c, proc))
              /\ (IsSome(c.users) => check_user(c, proc))
              /\ (IsSome(c.commands) => check_command(c, proc))
         ELSE \/ (IsSome(c.pids) /\ check_pid(c, proc))
              \/ (IsSome(c.pgids) /\ check_pgid(c, proc))
              \/ (IsSome(c.users) /\ check_user(c, proc))
              \/ (IsSome(c.commands) /\ check_command(c, proc))

NetworkTypes == {"IPv4", "IPv6", "SOCK", "unix"}

\* InetFilter::matches_file
\* InetFilter::matches_file without the test of the file type
inet_matches_fileAnyType(f, file) ==
    IF IsSome(f.ip_version) /\ Unwrap(f.ip_version) = 4 /\ file.file_type # "IPv4"
    THEN FALSE
    ELSE IF IsSome(f.ip_version) /\ Unwrap(f.ip_version) = 6 /\ file.file_type # "IPv6"
         THEN FALSE
    ELSE IF IsSome(f.protocol)
            /\ ~StrContains(ToUppercase(file.node), ToUppercase(Unwrap(f.protocol)))
         THEN FALSE
    ELSE IF IsSome(f.port) /\ ~StrContains(file.name, <<":">> \o ToDecimal(Unwrap(f.port)))
         THEN FALSE
    ELSE IF IsSome(f.host) /\ ~StrContains(file.name, Unwrap(f.host))
         THEN FALSE
    ELSE TRUE

inet_matches_file(f, file) ==
    IF file.file_type \notin NetworkTypes THEN FALSE
    ELSE IF IsSome(f.ip_version) /\ Unwrap(f.ip_version) = 4 /\ file.file_type # "IPv4"
         THEN FALSE
    ELSE IF IsSome(f.ip_version) /\ Unwrap(f.ip_version) = 6 /\ file.file_type # "IPv6"
         THEN FALSE
    ELSE IF IsSome(f.protocol)
            /\ ~StrContains(ToUppercase(file.node), ToUppercase(Unwrap(f.protocol)))
         THEN FALSE
    ELSE IF IsSome(f.port) /\ ~StrContains(file.name, <<":">> \o ToDecimal(Unwrap(f.port)))
         THEN FALSE
    ELSE IF IsSome(f.host) /\ ~StrContains(file.name, Unwrap(f.host))
         THEN FALSE
    ELSE TRUE

file_in_dir_tree(file_name, dir) ==
    LET dir_prefix == IF EndsWith(dir, <<"/">>) THEN dir ELSE dir \o <<"/">>
    IN  StartsWith(file_name, dir_prefix) \/ file_name = dir

\* Path::parent, for paths without `.` components: Option<path>
RECURSIVE StripSlashes(_)
StripSlashes(s) ==
    IF s # << >> /\ s[Len(s)] = "/" THEN StripSlashes(SubSeq(s, 1, Len(s) - 1)) ELSE s
RECURSIVE DropLastComponent(_)
DropLastComponent(s) ==
    IF s # << >> /\ s[Len(s)] # "/" THEN DropLastComponent(SubSeq(s, 1, Len(s) - 1)) ELSE s
PathParent(s) ==
    LET t == StripSlashes(s)
        d == DropLastComponent(t)
    IN  IF t = << >> THEN None
        ELSE IF StripSlashes(d) = << >> /\ d # << >> THEN Some(<<"/">>)
        ELSE Some(StripSlashes(d))

file_in_dir(file_name, dir) ==
    LET parent == PathParent(file_name)
    IN  IF IsSome(parent) THEN Unwrap(parent) = dir ELSE FALSE

\* the SizeOp comparison with a descriptor without size_off taken as a match
size_matchesAbsentAccepted(sf, file) ==
    IF IsSome(file.size_off)
    THEN CASE sf.op = "GreaterThan" -> U64Less(sf.bytes, U64Of(Unwrap(file.size_off)))
           [] sf.op = "LessThan" -> U64Less(U64Of(Unwrap(file.size_off)), sf.bytes)
           [] sf.op = "Exact" -> U64Of(Unwrap(file.size_off)) = sf.bytes
    ELSE TRUE

\* the SizeOp comparison of matches_file
size_matches(sf, file) ==
    IF IsSome(file.size_off)
    THEN CASE sf.op = "GreaterThan" -> U64Less(sf.bytes, U64Of(Unwrap(file.size_off)))
           [] sf.op = "LessThan" -> U64Less(U64Of(Unwrap(file.size_off)), sf.bytes)
           [] sf.op = "Exact" -> U64Of(Unwrap(file.size_off)) = sf.bytes
    ELSE FALSE

\* the `results` vector of matches_file
FileResults(c, file) ==
    (IF IsSome(c.inet) THEN <<inet_matches_file(Unwrap(c.inet), file)>> ELSE << >>)
    \o (IF IsSome(c.dir_tree) THEN <<file_in_dir_tree(file.name, Unwrap(c.dir_tree))>>
        ELSE << >>)
    \o (IF IsSome(c.dir) THEN <<file_in_dir(file.name, Unwrap(c.dir))>> ELSE << >>)
    \o (IF c.names # << >> THEN <<\E k \in DOMAIN c.names : file.name = c.names[k]>>
        ELSE << >>)
    \o (IF IsSome(c.size_filter) THEN <<size_matches(Unwrap(c.size_filter), file)>>
        ELSE << >>)

matches_file(c, file) ==
    IF IsNone(c.inet) /\ IsNone(c.dir_tree) /\ IsNone(c.dir) /\ c.names = << >>
       /\ IsNone(c.size_filter)
    THEN TRUE
    ELSE LET results == FileResults(c, file)
         IN  IF results = << >> THEN TRUE
             ELSE IF c.and_mode THEN \A k \in DOMAIN results : results[k]
             ELSE \E k \in DOMAIN results : results[k]

(***************************************************************************)
(* output.rs: OutputFormatter.                                             *)
(***************************************************************************)
DefaultCmdWidth == 9

\* OutputFormatter::from_cli
Formatter(a) ==
    [cmd_width |-> IF IsSome(a.cmd_width) THEN Unwrap(a.cmd_width) ELSE DefaultCmdWidth,
     list_uid |-> a.list_uid,
     show_ppid |-> a.show_ppid,
     terse |-> a.terse,
     field_output |-> a.field_output,
     tcp_info |-> a.tcp_info]

\* format!("{:<w$}"), format!("{:>w$}"): pad, never cut
RECURSIVE Spaces(_)
Spaces(n) == IF n <= 0 THEN << >> ELSE <<" ">> \o Spaces(n - 1)
PadRight(s, w) == s \o Spaces(w - Len(s))
PadLeft(s, w) == Spaces(w - Len(s)) \o s

fit_str(s, width) ==
    IF Len(s) > width THEN SubSeq(s, 1, width) ELSE PadRight(s, width)

format_size_off(size) ==
    IF IsSome(size) THEN ToDecimal(Unwrap(size)) ELSE <<"0", "t", "0">>

\* <FdMode as Display>::fmt
FdModeText(m) ==
    CASE m = "Read" -> <<"r">>
      [] m = "Write" -> <<"w">>
      [] m = "ReadWrite" -> <<"u">>
      [] m = "Unknown" -> <<" ">>

\* <FdType as Display>::fmt
FdText(fd) ==
    CASE fd.kind = "Cwd" -> <<"c", "w", "d">>
      [] fd.kind = "Txt" -> <<"t", "x", "t">>
      [] fd.kind = "Mem" -> <<"m", "e", "m">>
      [] fd.kind = "Rtd" -> <<"r", "t", "d">>
      [] fd.kind = "Mmap" -> <<"m", "m", "a", "p">>
      [] fd.kind = "Numbered" -> ToDecimal(fd.n) \o FdModeText(fd.mode)

\* <FileType as Display>::fmt, on the types the model uses
FileTypeText(t) ==
    CASE t = "REG" -> <<"R", "E", "G">>
      [] t = "DIR" -> <<"D", "I", "R">>
      [] t = "SOCK" -> <<"S", "O", "C", "K">>
      [] t = "IPv4" -> <<"I", "P", "v", "4">>
      [] t = "IPv6" -> <<"I", "P", "v", "6">>
      [] t = "unix" -> <<"u", "n", "i", "x">>

UserDisplay(fmt, proc) == IF fmt.list_uid THEN ToDecimal(proc.uid) ELSE proc.user
PpidText(proc) == IF IsSome(proc.ppid) THEN ToDecimal(Unwrap(proc.ppid)) ELSE << >>

\* one line of stdout: what printed it, for which process, and its columns
Line(kind, pid, cols) == [kind |-> kind, pid |-> pid, cols |-> cols]

HeaderColumns(fmt) ==
    <<PadRight(<<"C", "O", "M", "M", "A", "N", "D">>, fmt.cmd_width),
      PadLeft(<<"P", "I", "D">>, 5)>>
    \o (IF fmt.show_ppid THEN <<PadLeft(<<"P", "P", "I", "D">>, 5)>> ELSE << >>)
    \o <<PadRight(<<"U", "S", "E", "R">>, 8),
         PadLeft(<<"F", "D">>, 4),
         PadLeft(<<"T", "Y", "P", "E">>, 6),
         PadLeft(<<"D", "E", "V", "I", "C", "E">>, 8),
         PadLeft(<<"S", "I", "Z", "E", "/", "O", "F", "F">>, 8),
         PadLeft(<<"N", "O", "D", "E">>, 4),
         <<"N", "A", "M", "E">>>>

print_header(fmt) == <<Line("header", 0, HeaderColumns(fmt))>>

\* the -T q suffix of print_process_files
DisplayName(fmt, file) ==
    IF /\ IsSome(fmt.tcp_info)
       /\ Contains(Unwrap(fmt.tcp_info), "q")
       /\ file.file_type \in {"IPv4", "IPv6"}
       /\ IsSome(file.recv_queue)
       /\ IsSome(file.send_queue)
    THEN file.name \o <<" ", "Q", "R", "=">> \o ToDecimal(Unwrap(file.recv_queue))
         \o <<" ", "Q", "S", "=">> \o ToDecimal(Unwrap(file.send_queue))
    ELSE file.name

FileRow(fmt, proc, file) ==
    Line("file", proc.pid,
         <<fit_str(proc.comm, fmt.cmd_width), PadLeft(ToDecimal(proc.pid), 5)>>
         \o (IF fmt.show_ppid THEN <<PadLeft(PpidText(proc), 5)>> ELSE << >>)
         \o <<PadRight(UserDisplay(fmt, proc), 8),
              PadLeft(FdText(file.fd), 4),
              PadLeft(FileTypeText(file.file_type), 6),
              PadLeft(file.device, 8),
              PadLeft(format_size_off(file.size_off), 8),
              PadLeft(file.node, 4),
              DisplayName(fmt, file)>>)

print_process_files(fmt, proc) ==
    [k \in DOMAIN proc.open_files |-> FileRow(fmt, proc, proc.open_files[k])]

\* run_once: the row of a process without descriptors
PlaceholderRow(fmt, proc) ==
    LET cmd == IF Len(proc.comm) > fmt.cmd_width
               THEN SubSeq(proc.comm, 1, fmt.cmd_width) ELSE proc.comm
    IN  Line("placeholder", proc.pid,
             <<PadRight(cmd, fmt.cmd_width), PadLeft(ToDecimal(proc.pid), 5)>>
             \o (IF fmt.show_ppid THEN <<PadLeft(PpidText(proc), 5)>> ELSE << >>)
             \o <<PadRight(UserDisplay(fmt, proc), 8)>>)

RECURSIVE Flatten(_)
Flatten(ss) == IF ss = << >> THEN << >> ELSE Head(ss) \o Flatten(Tail(ss))

\* a terse printer that leaves out the processes without descriptors
print_terseSkipEmpty(ps) ==
    LET shown == SelectSeq(ps, LAMBDA p : p.open_files # << >>)
    IN  [k \in DOMAIN shown |-> Line("pid", shown[k].pid, <<ToDecimal(shown[k].pid)>>)]

print_terse(ps) ==
    [k \in DOMAIN ps |-> Line("pid", ps[k].pid, <<ToDecimal(ps[k].pid)>>)]

DefaultFields == <<"p", "c", "u", "f", "t", "n">>

\* print_field_output: the lines of one letter of the process-level loop
ProcessFieldLines(fmt, proc, ch) ==
    CASE ch = "p" -> <<Line("field", proc.pid, <<<<"p">> \o ToDecimal(proc.pid)>>)>>
      [] ch = "c" -> <<Line("field", proc.pid, <<<<"c">> \o proc.comm>>)>>
      [] ch = "u" -> <<Line("field", proc.pid, <<<<"u">> \o UserDisplay(fmt, proc)>>)>>
      [] ch = "R" -> IF IsSome(proc.ppid)
                     THEN <<Line("field", proc.pid, <<<<"R">> \o PpidText(proc)>>)>>
                     ELSE << >>
      [] ch = "g" -> <<Line("field", proc.pid, <<<<"g">> \o ToDecimal(proc.pid)>>)>>
      [] OTHER -> << >>

\* print_field_output: the lines of one letter of the file-level loop
FileFieldLines(proc, file, ch) ==
    CASE ch = "f" -> <<Line("field", proc.pid, <<<<"f">> \o FdText(file.fd)>>)>>
      [] ch = "t" -> <<Line("field", proc.pid, <<<<"t">> \o FileTypeText(file.file_type)>>)>>
      [] ch = "D" -> <<Line("field", proc.pid, <<<<"D">> \o file.device>>)>>
      [] ch = "s" -> IF IsSome(file.size_off)
                     THEN <<Line("field", proc.pid,
                                 <<<<"s">> \o ToDecimal(Unwrap(file.size_off))>>)>>
                     ELSE << >>
      [] ch = "i" -> <<Line("field", proc.pid, <<<<"i">> \o file.node>>)>>
      [] ch = "n" -> <<Line("field", proc.pid, <<<<"n">> \o file.name>>)>>
      [] OTHER -> << >>

print_field_output(fmt, proc) ==
    LET fields == IF IsSome(fmt.field_output) THEN Unwrap(fmt.field_output)
                  ELSE DefaultFields
    IN  Flatten([k \in DOMAIN fields |-> ProcessFieldLines(fmt, proc, fields[k])])
        \o Flatten([j \in DOMAIN proc.open_files |->
                      Flatten([k \in DOMAIN fields |->
                                 FileFieldLines(proc, proc.open_files[j], fields[k])])])

\* run_once, step 3: which of the three printers runs
\* the branches of run_once's step 3 with -F tested before -t
OutputModeFieldFirst(fmt) ==
    IF IsSome(fmt.field_output) THEN "field"
    ELSE IF fmt.terse THEN "terse"
    ELSE "columnar"

OutputMode(fmt) ==
    IF fmt.terse THEN "terse"
    ELSE IF IsSome(fmt.field_output) THEN "field"
    ELSE "columnar"

\* run_once, step 3: the columnar branch
print_columnar(fmt, ps) ==
    print_header(fmt)
    \o Flatten([k \in DOMAIN ps |->
                  IF ps[k].open_files = << >> THEN <<PlaceholderRow(fmt, ps[k])>>
                  ELSE print_process_files(fmt, ps[k])])

(***************************************************************************)
(* The machine the program runs on: processes and their descriptors.       *)
(***************************************************************************)
Proc(pid, ppid, pgid, comm, user, uid) ==
    [pid |-> pid, ppid |-> ppid, pgid |-> pgid, comm |-> comm, user |-> user,
     uid |-> uid, open_files |-> << >>]

File(fd, type, device, size, node, name) ==
    [fd |-> fd, file_type |-> type, device |-> device, size_off |-> size,
     node |-> node, name |-> name, send_queue |-> None, recv_queue |-> None]

Numbered(n, mode) == [kind |-> "Numbered", n |-> n, mode |-> mode]
Special(kind) == [kind |-> kind, n |-> 0, mode |-> "Unknown"]

UserRoot == <<"r">>
UserWww == <<"w">>

\* the processes of the pipeline runs, in the kernel's order
ProcPool ==
    <<Proc(1, Some(0), Some(1), <<"s", "h">>, UserRoot, 0),
      Proc(2, Some(1), Some(2), <<"n", "g">>, UserWww, 3)>>

\* the descriptors a process may hold, in the provider's order
FilePool ==
    <<File(Special("Cwd"), "DIR", <<"8", ",", "1">>, Some(0), <<"2">>, <<"/", "b">>),
      File(Numbered(3, "Read"), "REG", <<"8", ",", "1">>, Some(2), <<"7">>,
           <<"/", "a", "/", "f">>),
      File(Numbered(4, "ReadWrite"), "IPv4", << >>, None, <<"9">>,
           <<"h", ":", "8", "0">>)>>

\* the subsequences of `pool` of at most `n` elements
SubSeqs(pool, n) ==
    {[k \in 1..Cardinality(S) |->
        pool[CHOOSE i \in S : Cardinality({j \in S : j < i}) = k - 1]] :
     S \in {T \in SUBSET DOMAIN pool : Cardinality(T) <= n}}

KernelTables == SubSeqs(ProcPool, Len(ProcPool))
FileLists == SubSeqs(FilePool, MaxFiles)

(***************************************************************************)
(* cli.rs: CliArgs.                                                        *)
(***************************************************************************)
\* the command line without options
NoArgs ==
    [pid |-> None, pgid |-> None, user |-> None, command |-> None, inet |-> None,
     size_filter |-> None, dir_tree |-> None, dir |-> None, names |-> << >>,
     and_mode |-> FALSE, terse |-> FALSE, field_output |-> None, list_uid |-> FALSE,
     show_ppid |-> FALSE, cmd_width |-> None, repeat |-> None, tcp_info |-> None]

Opt(f, v) == [f |-> f, v |-> v]

\* the option values of the pipeline runs
PipelineOptions ==
    <<Opt("pid", Some(<<"^", "1">>)), Opt("pid", Some(<<"x">>)),
      Opt("user", Some(UserRoot)), Opt("user", Some(UserWww)),
      Opt("inet", Some(<< >>)),
      Opt("dir_tree", Some(<<"/", "a">>)),
      Opt("dir", Some(<<"/", "a">>)),
      Opt("names", <<<<"/", "a", "/", "f">>>>),
      Opt("size_filter", Some(<<"+", "1">>)), Opt("size_filter", Some(<<"1", "x">>)),
      Opt("terse", TRUE),
      Opt("field_output", Some(<<"p", "n">>)),
      Opt("repeat", Some(1))>>

\* the command lines that give at most n of the options, each at most once
CommandLines(options, n) ==
    {[f \in DOMAIN NoArgs |->
        IF \E i \in S : options[i].f = f
        THEN options[CHOOSE i \in S : options[i].f = f].v
        ELSE NoArgs[f]] :
     S \in {T \in SUBSET DOMAIN options :
              /\ Cardinality(T) <= n
              /\ \A i, j \in T : options[i].f = options[j].f => i = j}}

PipelineArgs ==
    {[a EXCEPT !.and_mode = m] :
       a \in CommandLines(PipelineOptions, MaxOpts), m \in BOOLEAN}

(***************************************************************************)
(* main.rs: main and run_once.                                             *)
(***************************************************************************)
Init ==
    /\ args \in PipelineArgs
    /\ ktable \in KernelTables
    /\ pc = "start"
    /\ cfg = None
    /\ procs = << >>
    /\ idx = 0
    /\ calls = << >>
    /\ out = << >>
    /\ ProviderIdle
    /\ OthersIdle

\* main: FilterConfig::from_cli succeeds
FromCliOk ==
    /\ pc = "start"
    /\ from_cli(args).ok
    /\ cfg' = from_cli(args).v
    /\ pc' = "run"
    /\ UNCHANGED <<args, ktable, procs, idx, calls, out>>
    /\ UNCHANGED <<pvars, tvars>>

\* main: FilterConfig::from_cli panics in parse_size_filter, in a build with
\* overflow checks; a build without them goes on with FromCliOk
FromCliPanic ==
    /\ pc = "start"
    /\ size_filter_overflows(args)
    /\ pc' = "panic"
    /\ UNCHANGED <<args, ktable, cfg, procs, idx, calls, out>>
    /\ UNCHANGED <<pvars, tvars>>

\* main: FilterConfig::from_cli fails: "Error parsing filters", exit(1)
FromCliErr ==
    /\ pc = "start"
    /\ ~from_cli(args).ok
    /\ pc' = "exit1"
    /\ UNCHANGED <<args, ktable, cfg, procs, idx, calls, out>>
    /\ UNCHANGED <<pvars, tvars>>

\* run_once: provider.list_processes()? returns the kernel's table
ListProcesses ==
    /\ pc = "run"
    /\ procs' = ktable
    /\ pc' = "retain"
    /\ UNCHANGED <<args, ktable, cfg, idx, calls, out>>
    /\ UNCHANGED <<pvars, tvars>>

\* run_once: provider.list_processes()? fails: main prints the error, exit(1)
ListProcessesErr ==
    /\ pc = "run"
    /\ pc' = "exit1"
    /\ UNCHANGED <<args, ktable, cfg, procs, idx, calls, out>>
    /\ UNCHANGED <<pvars, tvars>>

\* run_once, step 1: processes.retain(|p| filter_config.matches_process(p))
RetainProcesses ==
    /\ pc = "retain"
    /\ procs' = SelectSeq(procs, LAMBDA p : matches_process(Unwrap(cfg), p))
    /\ idx' = 1
    /\ pc' = "populate"
    /\ UNCHANGED <<args, ktable, cfg, calls, out>>
    /\ UNCHANGED <<pvars, tvars>>

has_file_filters(c) ==
    IsSome(c.inet) \/ IsSome(c.dir_tree) \/ IsSome(c.dir) \/ c.names # << >>

\* run_once, step 2: what the loop stores for one Ok(files)
KeptFiles(c, files) ==
    IF has_file_filters(c) THEN SelectSeq(files, LAMBDA f : matches_file(c, f))
    ELSE files

\* an Err that ends the loop (`break`) instead of going on
AfterErrBreak(i, n) == n + 1

\* run_once, step 2: where the loop goes on after an Err (`continue`)
AfterErr(i, n) == i + 1

Call(pid, ok, files) == [pid |-> pid, ok |-> ok, files |-> files]

\* run_once, step 2: provider.list_open_files(proc.pid) returns Ok(files), for
\* a provider whose answers are `lists`
ListOpenFilesFrom(lists) ==
    /\ pc = "populate"
    /\ idx <= Len(procs)
    /\ \E files \in lists :
         /\ procs' = [procs EXCEPT ![idx].open_files = KeptFiles(Unwrap(cfg), files)]
         /\ calls' = Append(calls, Call(procs[idx].pid, TRUE, files))
    /\ idx' = idx + 1
    /\ UNCHANGED <<args, ktable, pc, cfg, out>>
    /\ UNCHANGED <<pvars, tvars>>

ListOpenFilesOk == ListOpenFilesFrom(FileLists)

\* run_once, step 2: provider.list_open_files(proc.pid) returns Err
ListOpenFilesErr ==
    /\ pc = "populate"
    /\ idx <= Len(procs)
    /\ calls' = Append(calls, Call(procs[idx].pid, FALSE, << >>))
    /\ idx' = AfterErr(idx, Len(procs))
    /\ UNCHANGED <<args, ktable, pc, cfg, procs, out>>
    /\ UNCHANGED <<pvars, tvars>>

\* run_once: processes.retain(|p| !p.open_files.is_empty()) under has_file_filters
Prune ==
    /\ pc = "populate"
    /\ idx > Len(procs)
    /\ procs' = IF has_file_filters(Unwrap(cfg))
                THEN SelectSeq(procs, LAMBDA p : p.open_files # << >>)
                ELSE procs
    /\ pc' = "output"
    /\ UNCHANGED <<args, ktable, cfg, idx, calls, out>>
    /\ UNCHANGED <<pvars, tvars>>

\* run_once, step 3: formatter.print_terse(&processes)
PrintTerse ==
    /\ pc = "output"
    /\ OutputMode(Formatter(args)) = "terse"
    /\ out' = print_terse(procs)
    /\ pc' = "printed"
    /\ UNCHANGED <<args, ktable, cfg, procs, idx, calls>>
    /\ UNCHANGED <<pvars, tvars>>

\* run_once, step 3: formatter.print_field_output(proc) for each process
PrintFieldOutput ==
    /\ pc = "output"
    /\ OutputMode(Formatter(args)) = "field"
    /\ out' = Flatten([k \in DOMAIN procs |-> print_field_output(Formatter(args), procs[k])])
    /\ pc' = "printed"
    /\ UNCHANGED <<args, ktable, cfg, procs, idx, calls>>
    /\ UNCHANGED <<pvars, tvars>>

\* run_once, step 3: the header and the rows
PrintColumnar ==
    /\ pc = "output"
    /\ OutputMode(Formatter(args)) = "columnar"
    /\ out' = print_columnar(Formatter(args), procs)
    /\ pc' = "printed"
    /\ UNCHANGED <<args, ktable, cfg, procs, idx, calls>>
    /\ UNCHANGED <<pvars, tvars>>

\* main: repeat mode sleeps and runs the next pass
Repeat ==
    /\ pc = "printed"
    /\ IsSome(args.repeat)
    /\ pc' = "run"
    /\ procs' = << >>
    /\ idx' = 0
    /\ calls' = << >>
    /\ out' = << >>
    /\ UNCHANGED <<args, ktable, cfg>>
    /\ UNCHANGED <<pvars, tvars>>

\* main: without -r the loop breaks and the program ends with status 0
Exit ==
    /\ pc = "printed"
    /\ IsNone(args.repeat)
    /\ pc' = "exit0"
    /\ UNCHANGED <<args, ktable, cfg, procs, idx, calls, out>>
    /\ UNCHANGED <<pvars, tvars>>

Next ==
    \/ FromCliOk
    \/ FromCliErr
    \/ ListProcesses
    \/ ListProcessesErr
    \/ RetainProcesses
    \/ ListOpenFilesOk
    \/ ListOpenFilesErr
    \/ Prune
    \/ PrintTerse
    \/ PrintFieldOutput
    \/ PrintColumnar
    \/ Repeat
    \/ Exit

Spec == Init /\ [][Next]_vars

(***************************************************************************)
(* The process-level selection on its own: one process in the kernel's     *)
(* table, every combination of -p, -g, -u, -c and -a.                      *)
(***************************************************************************)
IdSpecs ==
    {<< >>, <<",", " ">>, <<"1">>, <<"^", "1">>, <<"1", ",", "^", "1">>}
UserSpecs ==
    {<< >>, UserRoot, <<"^">> \o UserRoot, UserRoot \o <<",", "^">> \o UserRoot}
CommandSpecs == {<< >>, <<"s">>, <<"^", "s">>}

OptionOf(specs) == {None} \cup {Some(x) : x \in specs}

SelectionArgs ==
    {[NoArgs EXCEPT !.pid = a, !.pgid = b, !.user = c, !.command = d, !.and_mode = m] :
       a \in OptionOf(IdSpecs \cup {<<"x">>}), b \in OptionOf(IdSpecs),
       c \in OptionOf(UserSpecs), d \in OptionOf(CommandSpecs), m \in BOOLEAN}

ProcUniverse ==
    {Proc(pid, Some(0), pgid, comm, user, 0) :
       pid \in 1..MaxId, pgid \in OptionOf(1..MaxId),
       comm \in {<<"s", "h">>, <<"n", "g">>}, user \in {UserRoot, UserWww}}

InitSelect ==
    /\ args \in SelectionArgs
    /\ ktable \in {<<p>> : p \in ProcUniverse}
    /\ pc = "start"
    /\ cfg = None
    /\ procs = << >>
    /\ idx = 0
    /\ calls = << >>
    /\ out = << >>
    /\ ProviderIdle
    /\ OthersIdle

NextSelect ==
    \/ FromCliOk
    \/ FromCliErr
    \/ ListProcesses
    \/ RetainProcesses

SpecSelect == InitSelect /\ [][NextSelect]_vars

\* the process-level filters of a FilterConfig that are set
ProcessFilters == {"pid", "pgid", "user", "command"}
FilterOf(c, n) ==
    CASE n = "pid" -> c.pids
      [] n = "pgid" -> c.pgids
      [] n = "user" -> c.users
      [] n = "command" -> c.commands
ActiveFilters(c) == {n \in ProcessFilters : IsSome(FilterOf(c, n))}
Accepts(c, n, proc) ==
    CASE n = "pid" -> check_pid(c, proc)
      [] n = "pgid" -> check_pgid(c, proc)
      [] n = "user" -> check_user(c, proc)
      [] n = "command" -> check_command(c, proc)

\* in SpecSelect: the one process of the table survived processes.retain
Selected == pc = "populate" /\ procs # << >>

(***************************************************************************)
(* The pass as a whole: what the claims below speak about.                 *)
(***************************************************************************)
\* the filter configuration main built
Config == Unwrap(cfg)

\* a file-level filter, the size predicate included, is set
AnyFileFilter(c) ==
    \/ IsSome(c.inet)
    \/ IsSome(c.dir_tree)
    \/ IsSome(c.dir)
    \/ c.names # << >>
    \/ IsSome(c.size_filter)

\* the pass has printed its output
Printed == pc \in {"printed", "exit0"}

\* the lines of stdout that belong to process pid
LinesOf(pid) == SelectSeq(out, LAMBDA l : l.pid = pid)

\* C1: whenever a file-level filter (inet, dir-tree, dir, names or size) is
\* active, every descriptor of every process handed to the columnar or field
\* printer satisfies matches_file.
C1_EmittedDescriptorsMatch ==
    (Printed /\ AnyFileFilter(Config) /\ ~args.terse)
    => \A k \in DOMAIN procs : \A j \in DOMAIN procs[k].open_files :
         matches_file(Config, procs[k].open_files[j])

\* C2: whenever a file-level filter (inet, dir-tree, dir, names or size) is
\* active, a process whose list_open_files call failed, or whose descriptors
\* all fail matches_file, has no line in the output, in any mode.
C2_NoEmptyProcessEmitted ==
    (Printed /\ AnyFileFilter(Config))
    => /\ \A k \in DOMAIN procs : procs[k].open_files # << >>
       /\ \A i \in DOMAIN calls :
            (\/ ~calls[i].ok
             \/ \A j \in DOMAIN calls[i].files : ~matches_file(Config, calls[i].files[j]))
            => LinesOf(calls[i].pid) = << >>

\* C7: a -s spec outside the grammar [+|-]N[K|KB|M|MB|G|GB] is fatal: the
\* program never gets past startup, it ends with status 1 without a
\* configuration and without having enumerated a process.
C7_BadSizeSpecIsFatal ==
    LET FitsGrammar(spec) ==
            LET body == IF spec # << >> /\ spec[1] \in {"+", "-"} THEN Tail(spec) ELSE spec
                n == DigitPrefixLen(body)
            IN  /\ n >= 1
                /\ ToUppercase(SubSeq(body, n + 1, Len(body)))
                     \in {<< >>, <<"K">>, <<"K", "B">>, <<"M">>, <<"M", "B">>,
                          <<"G">>, <<"G", "B">>}
    IN  (IsSome(args.size_filter) /\ ~FitsGrammar(Unwrap(args.size_filter)))
        => \/ pc = "start"
           \/ pc = "exit1" /\ IsNone(cfg) /\ procs = << >>

\* C8: one output mode per pass, terse before field before columnar: with -t
\* only pid lines, with -F and no -t only field lines, and the header line
\* exactly when neither is given, as the first line before the rows.
C8_OutputModePrecedence ==
    Printed
    => LET kinds == {out[k].kind : k \in DOMAIN out}
       IN  /\ args.terse => kinds \subseteq {"pid"}
           /\ (~args.terse /\ IsSome(args.field_output)) => kinds \subseteq {"field"}
           /\ (~args.terse /\ IsNone(args.field_output))
                => /\ out # << >>
                   /\ out[1].kind = "header"
                   /\ \A k \in 2..Len(out) : out[k].kind \in {"file", "placeholder"}
           /\ ("header" \in kinds) <=> (~args.terse /\ IsNone(args.field_output))

\* -t and -F together, and something was printed
C8_Witness ==
    /\ pc = "printed"
    /\ args.terse
    /\ IsSome(args.field_output)
    /\ out # << >>

\* the field lines a process owes to the process-level letters p, c, u, R, g
IsProcessField(l) == l.kind = "field" /\ l.cols[1][1] \in {"p", "c", "u", "R", "g"}

\* what the columnar and -F printers owe a process without descriptors
ZeroDescriptorRows(p) ==
    LET lines == LinesOf(p.pid)
    IN  /\ (~args.terse /\ IsNone(args.field_output))
          => /\ Len(lines) = 1
             /\ lines[1].kind = "placeholder"
             /\ Len(lines[1].cols) = IF args.show_ppid THEN 4 ELSE 3
             /\ lines[1].cols[2] = PadLeft(ToDecimal(p.pid), 5)
        /\ (~args.terse /\ IsSome(args.field_output))
          => \A k \in DOMAIN lines : IsProcessField(lines[k])

\* C9, as stated: a process that reaches the formatter with zero descriptors
\* gets one placeholder row with the identity columns in columnar mode, zero
\* rows in terse mode, and only process-level field lines in -F mode.
C9_ZeroRowsInTerse ==
    Printed
    => \A k \in DOMAIN procs :
         procs[k].open_files = << >>
         => /\ ZeroDescriptorRows(procs[k])
            /\ args.terse => LinesOf(procs[k].pid) = << >>

\* C9, amended: a process that reaches the formatter with zero descriptors
\* gets one placeholder row with the identity columns in columnar mode, one
\* line holding its pid in terse mode, and only process-level field lines in
\* -F mode.
C9_ZeroDescriptorOutput ==
    Printed
    => \A k \in DOMAIN procs :
         procs[k].open_files = << >>
         => /\ ZeroDescriptorRows(procs[k])
            /\ args.terse
                 => /\ Len(LinesOf(procs[k].pid)) = 1
                    /\ LinesOf(procs[k].pid)[1].cols = <<ToDecimal(procs[k].pid)>>

\* terse mode printed a process that has no descriptors
C9_Witness ==
    /\ pc = "printed"
    /\ args.terse
    /\ \E k \in DOMAIN procs :
         procs[k].open_files = << >> /\ LinesOf(procs[k].pid) # << >>

\* C10: failures of list_open_files never end the pass: while the loop runs,
\* every process before the cursor was asked exactly once, in order; a process
\* whose call failed has no descriptors, every other one has what its call
\* returned (what matches_file keeps of it when run_once filters descriptors);
\* and the program ends with status 1 only before the first call.
C10_ListOpenFilesFailuresTolerated ==
    /\ pc = "populate"
         => /\ Len(calls) = idx - 1
            /\ idx <= Len(procs) + 1
            /\ \A k \in DOMAIN calls :
                 /\ calls[k].pid = procs[k].pid
                 /\ ~calls[k].ok => procs[k].open_files = << >>
                 /\ calls[k].ok
                      => procs[k].open_files =
                           IF \/ IsSome(Config.inet) \/ IsSome(Config.dir_tree)
                              \/ IsSome(Config.dir) \/ Config.names # << >>
                           THEN SelectSeq(calls[k].files,
                                          LAMBDA f : matches_file(Config, f))
                           ELSE calls[k].files
    /\ pc = "exit1" => calls = << >>
    /\ (Printed /\ IsNone(args.inet) /\ IsNone(args.dir_tree) /\ IsNone(args.dir)
          /\ args.names = << >>)
         => \A k \in DOMAIN calls : LinesOf(calls[k].pid) # << >>

\* the call for the first process failed, the second one was still asked and
\* its descriptors were printed
C10_Witness ==
    /\ pc = "printed"
    /\ Len(calls) = 2
    /\ ~calls[1].ok
    /\ calls[2].ok
    /\ calls[2].files # << >>
    /\ \E k \in DOMAIN out : out[k].kind = "file" /\ out[k].pid = calls[2].pid

\* the tables handed on by processes.retain hold the process
Retained(p) == \E k \in DOMAIN procs : procs[k].pid = p.pid

\* in OR mode another process-level filter that is set accepts the process
Rescued(c, p) ==
    ~c.and_mode /\ \E n \in ActiveFilters(c) \ {"pid"} : Accepts(c, n, p)

\* the pass is past processes.retain
PastRetain == pc \in {"populate", "output", "printed", "exit0"}

C3_AndOrComposition ==
    pc = "populate"
    => LET p == ktable[1]
           active == ActiveFilters(Config)
       IN  /\ active = {} => Selected
           /\ (active # {} /\ Config.and_mode)
                => (Selected <=> \A n \in active : Accepts(Config, n, p))
           /\ (active # {} /\ ~Config.and_mode)
                => (Selected <=> \E n \in active : Accepts(Config, n, p))

\* OR mode, two filters set that disagree about the process, and it passed
C3_Witness ==
    /\ Selected
    /\ ~Config.and_mode
    /\ \E m, n \in ActiveFilters(Config) :
         Accepts(Config, m, ktable[1]) /\ ~Accepts(Config, n, ktable[1])
    /\ ActiveFilters(Config) # ProcessFilters

\* v is not excluded and is included or nothing is
PassesLists(f, v) ==
    ~Contains(f.exclude, v) /\ (f.include = << >> \/ Contains(f.include, v))

\* C5: each of the pid, pgid and user filters accepts v iff v is not in its
\* exclude list and its include list is empty or holds v; a process without
\* pgid is accepted iff the pgid include list is empty; with one such filter
\* alone, processes.retain keeps the process on exactly that condition.
C5_IncludeExcludeSemantics ==
    pc \in {"run", "retain", "populate"}
    => LET p == ktable[1]
           c == Config
           pid_ok == PassesLists(Unwrap(c.pids), p.pid)
           pgid_ok == IF IsNone(p.pgid) THEN Unwrap(c.pgids).include = << >>
                      ELSE PassesLists(Unwrap(c.pgids), Unwrap(p.pgid))
           user_ok == PassesLists(Unwrap(c.users), p.user)
       IN  /\ IsSome(c.pids) => (check_pid(c, p) <=> pid_ok)
           /\ IsSome(c.pgids) => (check_pgid(c, p) <=> pgid_ok)
           /\ IsSome(c.users) => (check_user(c, p) <=> user_ok)
           /\ (pc = "populate" /\ ActiveFilters(c) = {"pid"}) => (Selected <=> pid_ok)
           /\ (pc = "populate" /\ ActiveFilters(c) = {"pgid"}) => (Selected <=> pgid_ok)
           /\ (pc = "populate" /\ ActiveFilters(c) = {"user"}) => (Selected <=> user_ok)

\* the pid is in both lists of -p, nothing else is set, the process is dropped
C5_Witness ==
    /\ pc = "populate"
    /\ ActiveFilters(Config) = {"pid"}
    /\ Contains(Unwrap(Config.pids).include, ktable[1].pid)
    /\ Contains(Unwrap(Config.pids).exclude, ktable[1].pid)
    /\ ~Selected

\* C6: a -p, -g, -u or -c value without a token (empty, or only commas and
\* blanks) selects the same processes as the command line without that
\* option, in OR and in AND mode.
C6_EmptySpecIsInactive ==
    pc = "populate"
    => \A o \in ProcessFilters :
         LET given == IF o = "pid" THEN args.pid
                      ELSE IF o = "pgid" THEN args.pgid
                      ELSE IF o = "user" THEN args.user ELSE args.command
             without == IF o = "pid" THEN [args EXCEPT !.pid = None]
                        ELSE IF o = "pgid" THEN [args EXCEPT !.pgid = None]
                        ELSE IF o = "user" THEN [args EXCEPT !.user = None]
                        ELSE [args EXCEPT !.command = None]
             NoToken(s) == IF o = "command" THEN \A k \in DOMAIN s : s[k] = " "
                           ELSE \A k \in DOMAIN s : s[k] \in {",", " "}
         IN  (IsSome(given) /\ NoToken(Unwrap(given)))
             => (Selected <=> matches_process(Unwrap(from_cli(without).v), ktable[1]))

(***************************************************************************)
(* platform/linux.rs: the procfs provider.                                 *)
(***************************************************************************)
\* OpenFileInfo, as the provider builds it; FileType::Unknown(s) is the type
\* "Unknown" with s in `unknown`
OpenFileInfo(fd, file_type, device, size_off, node, name, mode, link_target, sq, rq) ==
    [fd |-> fd, file_type |-> file_type, unknown |-> << >>, device |-> device,
     size_off |-> size_off, node |-> node, name |-> name, mode |-> mode,
     link_target |-> link_target, send_queue |-> sq, recv_queue |-> rq]
\* the same record with file_type = FileType::Unknown(s)
UnknownType(file, s) == [file EXCEPT !.file_type = "Unknown", !.unknown = s]

\* std::fs::Metadata: the file-type bits, st_dev, st_size, st_ino
Meta(kind, dev, size, ino) == [kind |-> kind, dev |-> dev, size |-> size, ino |-> ino]

classify_file_type(meta) ==
    CASE meta.kind = "file" -> "REG"
      [] meta.kind = "dir" -> "DIR"
      [] meta.kind = "symlink" -> "LINK"
      [] meta.kind = "block" -> "BLK"
      [] meta.kind = "char" -> "CHR"
      [] meta.kind = "fifo" -> "FIFO"
      [] meta.kind = "socket" -> "SOCK"
      [] OTHER -> "Unknown"

\* flags & 0o3
fd_mode_from_flags(flags) ==
    CASE flags % 4 = 0 -> "Read"
      [] flags % 4 = 1 -> "Write"
      [] flags % 4 = 2 -> "ReadWrite"
      [] OTHER -> "Unknown"

\* u32::from_str_radix(s, 8), on digit strings
IsOctal(s) == s # << >> /\ \A k \in DOMAIN s : IsDigit(s[k]) /\ DigitVal(s[k]) < 8
RECURSIVE OctalValue(_, _)
OctalValue(s, acc) ==
    IF s = << >> THEN acc ELSE OctalValue(Tail(s), acc * 8 + DigitVal(Head(s)))
\* str::trim_start_matches('0')
RECURSIVE TrimStartZeros(_)
TrimStartZeros(s) == IF s # << >> /\ Head(s) = "0" THEN TrimStartZeros(Tail(s)) ELSE s

\* read_fd_flags: `fdinfo` is what follows "flags:" in /proc/pid/fdinfo/fd,
\* None when the file cannot be read or has no such line
read_fd_flags(fdinfo) ==
    IF IsNone(fdinfo) THEN "Unknown"
    ELSE LET trimmed == Trim(Unwrap(fdinfo))
             digits == TrimStartZeros(trimmed)
             octal_str == IF digits = << >> THEN <<"0">> ELSE digits
         IN  IF IsOctal(octal_str) THEN fd_mode_from_flags(OctalValue(octal_str, 0))
             ELSE IF ParseUnsigned(trimmed, 32).ok
                  THEN fd_mode_from_flags(ParseUnsigned(trimmed, 32).v)
             ELSE "Unknown"

\* format_device, for st_dev below 2^31 (the shifts by 32 give 0)
format_device(dev) ==
    LET major == (dev \div 256) % 4096
        minor == (dev % 256) + ((dev \div 4096) \div 256) * 256
    IN  ToDecimal(major) \o <<",">> \o ToDecimal(minor)

\* the paths of the file system the provider looks at
PathRoot == <<"/">>
PathBin == <<"/", "b", "/", "x">>
PathLink == <<"/", "l">>
PathDangling == <<"/", "d">>
PathRaced == <<"/", "r">>
PathGone == <<"/", "g">>

\* the file system: what lstat (fs::symlink_metadata), stat (fs::metadata) and
\* readlink (fs::read_link) answer for a path; None is Err.  PathLink is a
\* symlink to PathBin, PathDangling a symlink whose target is gone, PathRaced
\* a symlink that is replaced before it can be read, PathGone does not exist.
FsEntry(path) ==
    CASE path = PathRoot ->
           [lstat |-> Some(Meta("dir", 2049, 4, 2)), stat |-> Some(Meta("dir", 2049, 4, 2)),
            readlink |-> None]
      [] path = PathBin ->
           [lstat |-> Some(Meta("file", 2049, 2, 7)), stat |-> Some(Meta("file", 2049, 2, 7)),
            readlink |-> None]
      [] path = PathLink ->
           [lstat |-> Some(Meta("symlink", 2049, 4, 8)),
            stat |-> Some(Meta("file", 2049, 2, 7)), readlink |-> Some(PathBin)]
      [] path = PathDangling ->
           [lstat |-> Some(Meta("symlink", 2049, 2, 9)), stat |-> None,
            readlink |-> Some(PathGone)]
      [] path = PathRaced ->
           [lstat |-> Some(Meta("symlink", 2049, 4, 5)),
            stat |-> Some(Meta("file", 2049, 2, 7)), readlink |-> None]
      [] OTHER -> [lstat |-> None, stat |-> None, readlink |-> None]

\* one call of stat, lstat or readlink, with its outcome
Sys(call, path, ok) == [call |-> call, path |-> path, ok |-> ok]

\* the (file_type, device, size_off, node) of a metadata result
Statted(fd, meta, name, mode, link_target) ==
    LET file == OpenFileInfo(fd, classify_file_type(meta), format_device(meta.dev),
                             Some(meta.size), ToDecimal(meta.ino), name, mode,
                             link_target, None, None)
    IN  IF file.file_type = "Unknown"
        THEN UnknownType(file, <<"u", "n", "k", "n", "o", "w", "n">>) ELSE file
\* the record of a path that could not be inspected
Unstatted(fd, name, mode) ==
    UnknownType(OpenFileInfo(fd, "Unknown", << >>, None, << >>, name, mode, None, None, None),
                <<"?">>)
\* the record built under avoid_stat
Minimal(fd, name, mode) ==
    UnknownType(OpenFileInfo(fd, "Unknown", << >>, None, << >>, name, mode, None, None, None),
                << >>)

\* open_file_from_path: the record, and the calls made to build it
open_file_from_path(path, fd_type, c) ==
    LET e == FsEntry(path)
    IN  IF c.avoid_stat THEN [file |-> Minimal(fd_type, path, None), sys |-> << >>]
        ELSE IF c.follow_symlinks
        THEN [file |-> IF IsSome(e.stat)
                       THEN Statted(fd_type, Unwrap(e.stat), path, None, None)
                       ELSE Unstatted(fd_type, path, None),
              sys |-> <<Sys("stat", path, IsSome(e.stat))>>]
        ELSE IF IsNone(e.lstat)
        THEN [file |-> Unstatted(fd_type, path, None), sys |-> <<Sys("lstat", path, FALSE)>>]
        ELSE IF classify_file_type(Unwrap(e.lstat)) = "LINK"
        THEN [file |-> Statted(fd_type, Unwrap(e.lstat), path, None, e.readlink),
              sys |-> <<Sys("lstat", path, TRUE), Sys("readlink", path, IsSome(e.readlink))>>]
        ELSE [file |-> Statted(fd_type, Unwrap(e.lstat), path, None, None),
              sys |-> <<Sys("lstat", path, TRUE)>>]

\* a numbered descriptor built the way the special entries are
open_file_from_fd_pathAsSpecial(path, fd_num, mode, c) ==
    open_file_from_path(path, Numbered(fd_num, mode), c)

\* open_file_from_fd_path: the record, and the calls made to build it
open_file_from_fd_path(path, fd_num, mode, c) ==
    LET e == FsEntry(path)
        fd == Numbered(fd_num, mode)
        is_symlink == IsSome(e.lstat) /\ Unwrap(e.lstat).kind = "symlink"
    IN  IF c.avoid_stat THEN [file |-> Minimal(fd, path, Some(mode)), sys |-> << >>]
        ELSE IF c.follow_symlinks
        THEN IF is_symlink /\ IsSome(e.stat)
             THEN [file |-> Statted(fd, Unwrap(e.stat), path, Some(mode), e.readlink),
                   sys |-> <<Sys("lstat", path, TRUE), Sys("stat", path, TRUE),
                             Sys("readlink", path, IsSome(e.readlink))>>]
             ELSE [file |-> IF IsSome(e.stat)
                            THEN Statted(fd, Unwrap(e.stat), path, Some(mode), None)
                            ELSE Unstatted(fd, path, Some(mode)),
                   sys |-> <<Sys("lstat", path, IsSome(e.lstat)),
                             Sys("stat", path, IsSome(e.stat))>>]
        ELSE IF IsSome(e.stat)
        THEN IF classify_file_type(Unwrap(e.stat)) = "LINK"
             THEN [file |-> Statted(fd, Unwrap(e.stat), path, Some(mode), e.readlink),
                   sys |-> <<Sys("stat", path, TRUE),
                             Sys("readlink", path, IsSome(e.readlink))>>]
             ELSE [file |-> Statted(fd, Unwrap(e.stat), path, Some(mode), None),
                   sys |-> <<Sys("stat", path, TRUE)>>]
        ELSE [file |-> IF IsSome(e.lstat)
                       THEN Statted(fd, Unwrap(e.lstat), path, Some(mode), None)
                       ELSE Unstatted(fd, path, Some(mode)),
              sys |-> <<Sys("stat", path, FALSE), Sys("lstat", path, IsSome(e.lstat))>>]

\* one row of /proc/net/{tcp,tcp6,udp,udp6}, and one of /proc/net/unix
NetEntry(inode, laddr, lport, raddr, rport, state, tx, rx) ==
    [inode |-> inode, local_addr |-> laddr, local_port |-> lport, remote_addr |-> raddr,
     remote_port |-> rport, state |-> state, tx_queue |-> tx, rx_queue |-> rx,
     path |-> None]
UnixEntry(inode, path) ==
    [inode |-> inode, local_addr |-> << >>, local_port |-> 0, remote_addr |-> << >>,
     remote_port |-> 0, state |-> "Close", tx_queue |-> 0, rx_queue |-> 0, path |-> path]

\* map_tcp_state followed by <TcpState as Display>::fmt, on the states used
TcpStateText(state) ==
    CASE state = "Established" -> <<"E", "S", "T", "A", "B", "L", "I", "S", "H", "E", "D">>
      [] state = "Listen" -> <<"L", "I", "S", "T", "E", "N">>
      [] state = "Close" -> <<"C", "L", "O", "S", "E", "D">>
      [] OTHER -> <<"N", "e", "w", "S", "y", "n", "R", "e", "c", "v">>

\* <Protocol as Display>::fmt
ProtocolText(protocol) ==
    CASE protocol = "Tcp" -> <<"T", "C", "P">>
      [] protocol = "Tcp6" -> <<"T", "C", "P", "6">>
      [] protocol = "Udp" -> <<"U", "D", "P">>
      [] protocol = "Udp6" -> <<"U", "D", "P", "6">>
      [] protocol = "Unix" -> <<"u", "n", "i", "x">>

\* SocketNetInfo of a row; state holds the text TcpState displays
SocketNetInfo(protocol, e) ==
    [inode |-> e.inode,
     protocol |-> protocol,
     local_addr |-> IF protocol = "Unix"
                    THEN (IF IsSome(e.path) THEN Unwrap(e.path) ELSE << >>)
                    ELSE e.local_addr,
     local_port |-> IF protocol = "Unix" THEN 0 ELSE e.local_port,
     remote_addr |-> IF protocol = "Unix" THEN << >> ELSE e.remote_addr,
     remote_port |-> IF protocol = "Unix" THEN 0 ELSE e.remote_port,
     state |-> IF protocol \in {"Tcp", "Tcp6"} THEN TcpStateText(e.state)
               ELSE IF protocol = "Unix" THEN <<"N", "O", "N", "E">>
               ELSE IF e.state = "Established" THEN TcpStateText(e.state)
               ELSE <<"N", "O", "N", "E">>,
     tx_queue |-> IF protocol = "Unix" THEN None ELSE Some(e.tx_queue),
     rx_queue |-> IF protocol = "Unix" THEN None ELSE Some(e.rx_queue)]

\* the rows of one table as SocketNetInfo; an unreadable table gives none
TableInfos(protocol, table) ==
    IF IsNone(table) THEN << >>
    ELSE [k \in DOMAIN Unwrap(table) |-> SocketNetInfo(protocol, Unwrap(table)[k])]

\* a socket map filled from /proc/net/tcp alone
build_socket_inode_mapTcpOnly(net) ==
    LET rows == TableInfos("Tcp", net.tcp)
    IN  [i \in {rows[k].inode : k \in DOMAIN rows} |->
           rows[CHOOSE k \in DOMAIN rows : rows[k].inode = i]]

\* build_socket_inode_map: HashMap<inode, SocketNetInfo>, later inserts win
build_socket_inode_map(net) ==
    LET rows == TableInfos("Tcp", net.tcp) \o TableInfos("Tcp6", net.tcp6)
                \o TableInfos("Udp", net.udp) \o TableInfos("Udp6", net.udp6)
                \o TableInfos("Unix", net.unix)
        last(i) == CHOOSE k \in DOMAIN rows :
                     /\ rows[k].inode = i
                     /\ \A j \in DOMAIN rows : rows[j].inode = i => j <= k
    IN  [i \in {rows[k].inode : k \in DOMAIN rows} |-> rows[last(i)]]

\* "{}:{} -> {}:{} ({})"
EndpointsName(info, tag) ==
    info.local_addr \o <<":">> \o ToDecimal(info.local_port) \o <<" ", "-", ">", " ">>
    \o info.remote_addr \o <<":">> \o ToDecimal(info.remote_port)
    \o <<" ", "(">> \o tag \o <<")">>

\* "unix socket inode={}" or the bound path
UnixName(info, inode) ==
    IF info.local_addr = << >>
    THEN <<"u", "n", "i", "x", " ", "s", "o", "c", "k", "e", "t", " ",
           "i", "n", "o", "d", "e", "=">> \o ToDecimal(inode)
    ELSE info.local_addr

\* "{prefix}:[{inode}]"
BracketName(prefix, inner) == prefix \o <<":", "[">> \o inner \o <<"]">>

\* list_open_files: the record of FDTarget::Socket(inode)
SocketRecord(map, fd, inode) ==
    IF inode \in DOMAIN map
    THEN LET info == map[inode]
             file_type == IF info.protocol \in {"Tcp", "Udp"} THEN "IPv4"
                          ELSE IF info.protocol \in {"Tcp6", "Udp6"} THEN "IPv6"
                          ELSE "unix"
             name == CASE info.protocol \in {"Tcp", "Tcp6"} -> EndpointsName(info, info.state)
                       [] info.protocol = "Udp" -> EndpointsName(info, <<"U", "D", "P">>)
                       [] info.protocol = "Udp6" -> EndpointsName(info, <<"U", "D", "P", "6">>)
                       [] OTHER -> UnixName(info, inode)
         IN  OpenFileInfo(fd, file_type, << >>, None, ToDecimal(inode), name,
                          Some(fd.mode), None, info.tx_queue, info.rx_queue)
    ELSE OpenFileInfo(fd, "SOCK", << >>, None, ToDecimal(inode),
                      BracketName(<<"s", "o", "c", "k", "e", "t">>, ToDecimal(inode)),
                      Some(fd.mode), None, None, None)

\* list_open_files: the record of FDTarget::Net(inode)
NetRecord(map, fd, inode) ==
    IF inode \in DOMAIN map
    THEN LET info == map[inode]
             file_type == IF info.protocol \in {"Tcp", "Udp"} THEN "IPv4"
                          ELSE IF info.protocol \in {"Tcp6", "Udp6"} THEN "IPv6"
                          ELSE "unix"
             name == CASE info.protocol \in {"Tcp", "Tcp6"} -> EndpointsName(info, info.state)
                       [] info.protocol \in {"Udp", "Udp6"} ->
                            EndpointsName(info, ProtocolText(info.protocol))
                       [] OTHER -> UnixName(info, inode)
         IN  OpenFileInfo(fd, file_type, << >>, None, ToDecimal(inode), name,
                          Some(fd.mode), None, info.tx_queue, info.rx_queue)
    ELSE OpenFileInfo(fd, "SOCK", << >>, None, ToDecimal(inode),
                      BracketName(<<"n", "e", "t">>, ToDecimal(inode)),
                      Some(fd.mode), None, None, None)

\* one entry of process.fd(): ok = FALSE is an entry that could not be read;
\* fdinfo is the flags text of /proc/pid/fdinfo/fd, None when unreadable
FdEntry(ok, fd, kind, path, inode, desc, fdinfo) ==
    [ok |-> ok, fd |-> fd, kind |-> kind, path |-> path, inode |-> inode,
     desc |-> desc, fdinfo |-> fdinfo]

\* list_open_files: the body of `for fd_info in fds` for one readable entry:
\* the record pushed, and the calls made to build it
FdRecord(map, e, c) ==
    LET mode == read_fd_flags(e.fdinfo)
        fd == Numbered(e.fd, mode)
        Plain(file_type, node, name) ==
            OpenFileInfo(fd, file_type, << >>, None, node, name, Some(mode), None, None, None)
    IN  CASE e.kind = "Path" -> open_file_from_fd_path(e.path, e.fd, mode, c)
          [] e.kind = "Socket" -> [file |-> SocketRecord(map, fd, e.inode), sys |-> << >>]
          [] e.kind = "Net" -> [file |-> NetRecord(map, fd, e.inode), sys |-> << >>]
          [] e.kind = "Pipe" ->
               [file |-> Plain("PIPE", ToDecimal(e.inode),
                               BracketName(<<"p", "i", "p", "e">>, ToDecimal(e.inode))),
                sys |-> << >>]
          [] e.kind = "AnonInode" ->
               [file |-> UnknownType(
                           Plain("Unknown", << >>,
                                 BracketName(<<"a", "n", "o", "n", "_", "i", "n", "o", "d", "e">>,
                                             e.desc)),
                           e.desc),
                sys |-> << >>]
          [] e.kind = "MemFD" ->
               [file |-> Plain("REG", << >>, <<"m", "e", "m", "f", "d", ":">> \o e.desc),
                sys |-> << >>]
          [] e.kind = "Other" ->
               [file |-> UnknownType(
                           Plain("Unknown", ToDecimal(e.inode),
                                 BracketName(e.desc, ToDecimal(e.inode))),
                           e.desc),
                sys |-> << >>]

\* list_open_files: the whole `for fd_info in fds` loop; unreadable entries
\* are skipped
RECURSIVE WalkFds(_, _, _)
WalkFds(map, fds, c) ==
    IF fds = << >> THEN [files |-> << >>, sys |-> << >>]
    ELSE IF ~Head(fds).ok THEN WalkFds(map, Tail(fds), c)
    ELSE \* one evaluation of the record and of the rest of the walk
         CHOOSE w \in {[files |-> <<r.file>> \o rest.files, sys |-> r.sys \o rest.sys] :
                         r \in {FdRecord(map, Head(fds), c)},
                         rest \in {WalkFds(map, Tail(fds), c)}} : TRUE

\* list_open_files: the record of one mapped path
MemRecord(p) ==
    LET m == FsEntry(p).stat
    IN  IF IsSome(m)
        THEN OpenFileInfo(Special("Mem"), classify_file_type(Unwrap(m)),
                          format_device(Unwrap(m).dev), Some(Unwrap(m).size),
                          ToDecimal(Unwrap(m).ino), p, Some("Read"), None, None, None)
        ELSE OpenFileInfo(Special("Mem"), "REG", << >>, None, << >>, p, Some("Read"),
                          None, None, None)

\* the loop over process.maps() without the seen_paths test
WalkMapsKeepRepeats(maps, seen_paths) ==
    LET paths == SelectSeq(maps, IsSome)
    IN  [files |-> [k \in DOMAIN paths |-> MemRecord(Unwrap(paths[k]))],
         sys |-> [k \in DOMAIN paths |->
                    Sys("stat", Unwrap(paths[k]), IsSome(FsEntry(Unwrap(paths[k])).stat))]]

\* list_open_files: the loop over process.maps(); an entry is the pathname
\* of a map when it is MMapPath::Path, None otherwise
RECURSIVE WalkMaps(_, _)
WalkMaps(maps, seen_paths) ==
    IF maps = << >> THEN [files |-> << >>, sys |-> << >>]
    ELSE IF IsNone(Head(maps)) \/ Unwrap(Head(maps)) \in seen_paths
    THEN WalkMaps(Tail(maps), seen_paths)
    ELSE LET p == Unwrap(Head(maps))
         IN  CHOOSE w \in {[files |-> <<MemRecord(p)>> \o rest.files,
                             sys |-> <<Sys("stat", p, IsSome(FsEntry(p).stat))>> \o rest.sys] :
                            rest \in {WalkMaps(Tail(maps), seen_paths \cup {p})}} : TRUE

\* what procfs may answer -------------------------------------------------
\* /proc/pid/maps: the pathname of each map, None for a map without a file
MapsTable == <<None, Some(PathBin), Some(PathGone), None, Some(PathBin), Some(PathLink)>>
\* /proc/net/*; a table that cannot be read is None
NetTables ==
    [tcp |-> Some(<<NetEntry(11, <<"a">>, 80, <<"b">>, 9, "Listen", 1, 2)>>),
     tcp6 |-> Some(<<NetEntry(16, <<":", ":">>, 80, <<":", ":">>, 0, "NewSynRecv", 0, 0)>>),
     udp |-> Some(<<NetEntry(12, <<"a">>, 53, <<"b">>, 0, "Close", 3, 0)>>),
     udp6 |-> Some(<<NetEntry(13, <<":", ":">>, 53, <<":", ":">>, 0, "Established", 0, 4)>>),
     unix |-> Some(<<UnixEntry(14, None), UnixEntry(15, Some(<<"/", "s">>))>>)]
\* the descriptor table, in the order of the kernel's walk
FdPool ==
    <<FdEntry(TRUE, 0, "Path", PathBin, 0, << >>, Some(<<"0", "1", "0", "0", "0", "0", "0">>)),
      FdEntry(TRUE, 1, "Path", PathDangling, 0, << >>, Some(<<"0", "1">>)),
      FdEntry(TRUE, 2, "Path", PathLink, 0, << >>, Some(<<"0", "2">>)),
      FdEntry(FALSE, 3, "Path", PathBin, 0, << >>, None),
      FdEntry(TRUE, 4, "Socket", << >>, 11, << >>, Some(<<"0", "2", "0", "0", "0", "0", "2">>)),
      FdEntry(TRUE, 5, "Socket", << >>, 12, << >>, None),
      FdEntry(TRUE, 6, "Socket", << >>, 14, << >>, Some(<<"0", "3">>)),
      FdEntry(TRUE, 7, "Socket", << >>, 15, << >>, Some(<<"0", "2">>)),
      FdEntry(TRUE, 8, "Socket", << >>, 16, << >>, Some(<<"0", "2">>)),
      FdEntry(TRUE, 9, "Socket", << >>, 99, << >>, Some(<<"0", "2">>)),
      FdEntry(TRUE, 10, "Net", << >>, 13, << >>, Some(<<"0", "2">>)),
      FdEntry(TRUE, 11, "Net", << >>, 98, << >>, Some(<<"9">>)),
      FdEntry(TRUE, 12, "Pipe", << >>, 20, << >>, Some(<<"0", "1">>)),
      FdEntry(TRUE, 13, "AnonInode", << >>, 0, <<"e">>, Some(<<"0", "2">>)),
      FdEntry(TRUE, 14, "MemFD", << >>, 0, <<"m">>, Some(<<"0", "2">>)),
      FdEntry(TRUE, 15, "Other", << >>, 21, <<"o">>, Some(<<"0">>))>>
FdLists == SubSeqs(FdPool, MaxFds)

\* Result<T> of a provider operation: Ok with the descriptors, or Err(kind(pid))
Ok(files) == Some([ok |-> TRUE, err |-> "", files |-> files])
Err(kind) == Some([ok |-> FALSE, err |-> kind, files |-> << >>])

\* a LinuxProvider with its PlatformConfig, asked for list_open_files(1) or
\* get_process_detail(1); `kernel` records what procfs answered.  The
\* command-line pipeline is not running.
InitProvider ==
    /\ args = NoArgs
    /\ ktable = << >>
    /\ pc = "idle"
    /\ cfg = None
    /\ procs = << >>
    /\ idx = 0
    /\ calls = << >>
    /\ out = << >>
    /\ config \in [avoid_stat : BOOLEAN, follow_symlinks : BOOLEAN]
    /\ req \in {Some([op |-> op, pid |-> 1]) : op \in {"list_open_files", "get_process_detail"}}
    /\ ppc = IF Unwrap(req).op = "get_process_detail" THEN "find" ELSE "open"
    /\ kernel = [listed |-> "unasked", process |-> "unasked", cwd |-> None, root |-> None,
                 exe |-> None, maps |-> None, net |-> None, fds |-> None]
    /\ socket_map = << >>
    /\ lof_results = << >>
    /\ syscalls = << >>
    /\ ret = None
    /\ OthersIdle

\* get_process_detail: list_processes()? and the search for the pid
DetailListProcesses ==
    /\ ppc = "find"
    /\ \E listed \in {"err", "absent", "present"} :
         /\ kernel' = [kernel EXCEPT !.listed = listed]
         /\ ppc' = IF listed = "present" THEN "open" ELSE "done"
         /\ ret' = CASE listed = "err" -> Err("Platform")
                     [] listed = "absent" -> Err("ProcessNotFound")
                     [] OTHER -> ret
    /\ UNCHANGED <<mvars, tvars, config, req, socket_map, lof_results, syscalls>>

\* list_open_files: Process::new(pid) succeeds
OpenProcessOk ==
    /\ ppc = "open"
    /\ kernel' = [kernel EXCEPT !.process = "ok"]
    /\ ppc' = "cwd"
    /\ UNCHANGED <<mvars, tvars, config, req, socket_map, lof_results, syscalls, ret>>

\* list_open_files: Process::new(pid) fails, the process is gone or may not
\* be read; get_process_detail passes the error on with `?`
OpenProcessErr ==
    /\ ppc = "open"
    /\ \E why \in {"gone", "denied"} : kernel' = [kernel EXCEPT !.process = why]
    /\ ret' = Err("Platform")
    /\ ppc' = "done"
    /\ UNCHANGED <<mvars, tvars, config, req, socket_map, lof_results, syscalls>>

\* list_open_files: `if let Ok(path) = process.cwd() { results.push(..) }`;
\* the answer of the readlink of /proc/pid/cwd is drawn here, None is Err
EmitCwd ==
    /\ ppc = "cwd"
    /\ \E a \in {None, Some(PathRoot), Some(PathGone)} :
         /\ kernel' = [kernel EXCEPT !.cwd = a]
         /\ IF IsSome(a)
            THEN \E r \in {open_file_from_path(Unwrap(a), Special("Cwd"), config)} :
                   /\ lof_results' = Append(lof_results, r.file)
                   /\ syscalls' = syscalls \o r.sys
            ELSE UNCHANGED <<lof_results, syscalls>>
    /\ ppc' = "rtd"
    /\ UNCHANGED <<mvars, tvars, config, req, socket_map, ret>>

EmitRtd ==
    /\ ppc = "rtd"
    /\ \E a \in {None, Some(PathRoot)} :
         /\ kernel' = [kernel EXCEPT !.root = a]
         /\ IF IsSome(a)
            THEN \E r \in {open_file_from_path(Unwrap(a), Special("Rtd"), config)} :
                   /\ lof_results' = Append(lof_results, r.file)
                   /\ syscalls' = syscalls \o r.sys
            ELSE UNCHANGED <<lof_results, syscalls>>
    /\ ppc' = "txt"
    /\ UNCHANGED <<mvars, tvars, config, req, socket_map, ret>>

EmitTxt ==
    /\ ppc = "txt"
    /\ \E a \in {None, Some(PathBin), Some(PathLink), Some(PathRaced)} :
         /\ kernel' = [kernel EXCEPT !.exe = a]
         /\ IF IsSome(a)
            THEN \E r \in {open_file_from_path(Unwrap(a), Special("Txt"), config)} :
                   /\ lof_results' = Append(lof_results, r.file)
                   /\ syscalls' = syscalls \o r.sys
            ELSE UNCHANGED <<lof_results, syscalls>>
    /\ ppc' = "maps"
    /\ UNCHANGED <<mvars, tvars, config, req, socket_map, ret>>

\* list_open_files: `if let Ok(maps) = process.maps() { for map in .. }`
EmitMem ==
    /\ ppc = "maps"
    /\ \E a \in {None, Some(MapsTable)} :
         /\ kernel' = [kernel EXCEPT !.maps = a]
         /\ IF IsSome(a)
            THEN \E w \in {WalkMaps(Unwrap(a), {})} :
                   /\ lof_results' = lof_results \o w.files
                   /\ syscalls' = syscalls \o w.sys
            ELSE UNCHANGED <<lof_results, syscalls>>
    /\ ppc' = "sockets"
    /\ UNCHANGED <<mvars, tvars, config, req, socket_map, ret>>

\* list_open_files: let socket_map = build_socket_inode_map()
BuildSocketMap ==
    /\ ppc = "sockets"
    /\ \E net \in {NetTables, [NetTables EXCEPT !.tcp = None, !.unix = None]} :
         /\ kernel' = [kernel EXCEPT !.net = Some(net)]
         /\ socket_map' = build_socket_inode_map(net)
    /\ ppc' = "fds"
    /\ UNCHANGED <<mvars, tvars, config, req, lof_results, syscalls, ret>>

\* list_open_files: process.fd() fails, `return Ok(results)`
ReadFdsErr ==
    /\ ppc = "fds"
    /\ ret' = Ok(lof_results)
    /\ ppc' = "done"
    /\ UNCHANGED <<mvars, tvars, config, req, kernel, socket_map, lof_results, syscalls>>

\* list_open_files: process.fd() succeeds; the loop over the descriptors and
\* `Ok(results)`
ListFds ==
    /\ ppc = "fds"
    /\ \E fds \in FdLists :
         /\ kernel' = [kernel EXCEPT !.fds = Some(fds)]
         /\ \E w \in {WalkFds(socket_map, fds, config)} :
              /\ lof_results' = lof_results \o w.files
              /\ syscalls' = syscalls \o w.sys
              /\ ret' = Ok(lof_results \o w.files)
    /\ ppc' = "done"
    /\ UNCHANGED <<mvars, tvars, config, req, socket_map>>

NextProvider ==
    \/ DetailListProcesses
    \/ OpenProcessOk
    \/ OpenProcessErr
    \/ EmitCwd
    \/ EmitRtd
    \/ EmitTxt
    \/ EmitMem
    \/ BuildSocketMap
    \/ ReadFdsErr
    \/ ListFds

SpecProvider == InitProvider /\ [][NextProvider]_vars

(***************************************************************************)
(* Properties of the procfs provider.                                      *)
(***************************************************************************)
\* the operation has returned Ok
Returned == ppc = "done" /\ IsSome(ret) /\ Unwrap(ret).ok
\* the descriptors of the Ok result
ReturnedFiles == Unwrap(ret).files
\* the kinds of the slots of a descriptor list, in order
Slots(files) == [k \in DOMAIN files |-> files[k].fd.kind]
\* the record has none of the fields a stat fills in
NoStatFields(f) == f.device = << >> /\ f.node = << >> /\ IsNone(f.size_off)

\* C11: every successful list_open_files result begins with exactly the
\* three special entries Cwd, Rtd, Txt in that order, whatever avoid_stat and
\* follow_symlinks are and even when the target cannot be inspected; a
\* special entry whose lstat/stat fails is still there, with empty stat
\* fields.
C11_SpecialsAlwaysFirst ==
    Returned =>
        /\ Len(ReturnedFiles) >= 3
        /\ SubSeq(Slots(ReturnedFiles), 1, 3) = <<"Cwd", "Rtd", "Txt">>
        /\ \A k \in 4..Len(ReturnedFiles) :
             ReturnedFiles[k].fd.kind \notin {"Cwd", "Rtd", "Txt"}
        /\ \A k \in 1..3 :
             (\E c \in DOMAIN syscalls :
                /\ syscalls[c].path = ReturnedFiles[k].name
                /\ syscalls[c].call \in {"stat", "lstat"}
                /\ ~syscalls[c].ok)
             => NoStatFields(ReturnedFiles[k])

\* the descriptor is backed by a path: a special entry, a mapped file, or a
\* numbered descriptor whose target is FDTarget::Path
PathBacked(f) ==
    \/ f.fd.kind \in {"Cwd", "Rtd", "Txt", "Mem"}
    \/ f.fd.kind = "Numbered" /\ FdPool[f.fd.n + 1].kind = "Path"

\* C13: with avoid_stat = true, list_open_files makes no stat or lstat call
\* for any entry it emits, and every path-backed record has empty device and
\* node and no size.
C13_AvoidStatSkipsEveryStat ==
    config.avoid_stat =>
        /\ \A c \in DOMAIN syscalls : syscalls[c].call \notin {"stat", "lstat"}
        /\ \A k \in DOMAIN lof_results :
             PathBacked(lof_results[k]) => NoStatFields(lof_results[k])

\* C14: with avoid_stat = false and follow_symlinks = false, every record of
\* type LINK has a link_target, or a readlink call on its path was made and
\* failed.
C14_LinkHasTargetOrReadlinkFailed ==
    (~config.avoid_stat /\ ~config.follow_symlinks) =>
        \A k \in DOMAIN lof_results :
            lof_results[k].file_type = "LINK" =>
                \/ IsSome(lof_results[k].link_target)
                \/ \E c \in DOMAIN syscalls :
                     syscalls[c] = Sys("readlink", lof_results[k].name, FALSE)

\* C15: list_open_files(pid) and get_process_detail(pid) on a pid that has
\* disappeared (it is not in the process list, or it cannot be opened because
\* it is gone) return ProcessNotFound(pid), not Platform(msg).
C15_GonePidIsProcessNotFound ==
    (ppc = "done" /\ (kernel.listed = "absent" \/ kernel.process = "gone"))
        => ret = Err("ProcessNotFound")

\* the place of a slot kind in the order of a descriptor list
SlotRank(kind) ==
    CASE kind = "Cwd" -> 1 [] kind = "Rtd" -> 2 [] kind = "Txt" -> 3
      [] kind = "Mem" -> 4 [] OTHER -> 5
IsMemEntry(f) == f.fd.kind = "Mem"
IsNumberedEntry(f) == f.fd.kind = "Numbered"
\* the positions of `flags` that hold TRUE, and the k-th of them
Marked(flags) == {i \in DOMAIN flags : flags[i]}
KthMarked(flags, k) ==
    CHOOSE i \in Marked(flags) : Cardinality({j \in Marked(flags) : j <= i}) = k
\* the maps entries that name a file not named by an earlier entry
FirstSeen(maps) ==
    [i \in DOMAIN maps |-> IsSome(maps[i]) /\ \A j \in 1..(i - 1) : maps[j] # maps[i]]
\* the descriptor entries that could be read
Readable(fds) == [i \in DOMAIN fds |-> fds[i].ok]

\* the order of the list built so far
OrderedSlots ==
    \A i, j \in DOMAIN lof_results :
        i < j => /\ SlotRank(lof_results[i].fd.kind) <= SlotRank(lof_results[j].fd.kind)
                 /\ SlotRank(lof_results[i].fd.kind) <= 3
                    => SlotRank(lof_results[i].fd.kind) < SlotRank(lof_results[j].fd.kind)
\* once the maps are walked: one Mem entry per distinct mapped file, in
\* first-seen order
MemEntriesFollowMaps ==
    ppc \in {"sockets", "fds", "done"} /\ kernel.process = "ok" =>
        LET mems == SelectSeq(lof_results, IsMemEntry)
            maps == IF IsSome(kernel.maps) THEN Unwrap(kernel.maps) ELSE << >>
        IN  /\ Len(mems) = Cardinality(Marked(FirstSeen(maps)))
            /\ \A k \in DOMAIN mems :
                 Some(mems[k].name) = maps[KthMarked(FirstSeen(maps), k)]
\* once the descriptors are walked: the numbered entries are the readable
\* descriptors in the order of the walk
NumberedFollowWalk ==
    ppc = "done" /\ kernel.process = "ok" =>
        LET nums == SelectSeq(lof_results, IsNumberedEntry)
            fds == IF IsSome(kernel.fds) THEN Unwrap(kernel.fds) ELSE << >>
        IN  /\ Len(nums) = Cardinality(Marked(Readable(fds)))
            /\ \A k \in DOMAIN nums :
                 nums[k].fd.n = fds[KthMarked(Readable(fds), k)].fd
\* a step adds entries at the end of the list and changes none
ResultsOnlyGrow ==
    /\ Len(lof_results') >= Len(lof_results)
    /\ SubSeq(lof_results', 1, Len(lof_results)) = lof_results

\* C12: in every list_open_files result the special entries (Cwd, Rtd, Txt,
\* in that order, each at most once) precede all Mem entries, which precede
\* all numbered descriptors; there is exactly one Mem entry per distinct
\* file-backed mapped path, in first-seen order, none for a path-less map;
\* the numbered descriptors keep the order of the kernel's walk; entries are
\* only ever added at the end of the list.
C12_DescriptorOrder ==
    /\ [](OrderedSlots /\ MemEntriesFollowMaps /\ NumberedFollowWalk)
    /\ [][ResultsOnlyGrow]_vars
\* a result with all three special entries, the three mapped files of a map
\* with a repeated path and path-less entries, and two numbered descriptors
C12_Witness ==
    /\ Returned
    /\ Slots(ReturnedFiles)
         = <<"Cwd", "Rtd", "Txt", "Mem", "Mem", "Mem", "Numbered", "Numbered">>
    /\ Len(Unwrap(kernel.maps)) > 3

\* the rows of the kernel tables that could be read when the socket map was
\* built, each with the table it is in
TableRows(protocol, table) ==
    IF IsNone(table) THEN {}
    ELSE {<<protocol, Unwrap(table)[k]>> : k \in DOMAIN Unwrap(table)}
SnapshotRows ==
    LET net == Unwrap(kernel.net)
    IN  TableRows("Tcp", net.tcp) \cup TableRows("Tcp6", net.tcp6)
        \cup TableRows("Udp", net.udp) \cup TableRows("Udp6", net.udp6)
        \cup TableRows("Unix", net.unix)
\* what a record of a socket or net descriptor must look like, given the row
\* of its inode
SocketHitAsClaimed(f, row) ==
    LET protocol == row[1]
        e == row[2]
        Endpoints(tag) ==
            e.local_addr \o <<":">> \o ToDecimal(e.local_port) \o <<" ", "-", ">", " ">>
            \o e.remote_addr \o <<":">> \o ToDecimal(e.remote_port)
            \o <<" ", "(">> \o tag \o <<")">>
    IN  CASE protocol \in {"Tcp", "Tcp6"} ->
               /\ f.file_type = (IF protocol = "Tcp" THEN "IPv4" ELSE "IPv6")
               /\ f.name = Endpoints(TcpStateText(e.state))
               /\ f.send_queue = Some(e.tx_queue) /\ f.recv_queue = Some(e.rx_queue)
          [] protocol = "Udp" ->
               /\ f.file_type = "IPv4"
               /\ f.name = Endpoints(<<"U", "D", "P">>)
               /\ f.send_queue = Some(e.tx_queue) /\ f.recv_queue = Some(e.rx_queue)
          [] protocol = "Udp6" ->
               /\ f.file_type = "IPv6"
               /\ f.name = Endpoints(<<"U", "D", "P", "6">>)
               /\ f.send_queue = Some(e.tx_queue) /\ f.recv_queue = Some(e.rx_queue)
          [] OTHER ->
               /\ f.file_type = "unix"
               /\ f.name = IF IsSome(e.path) THEN Unwrap(e.path)
                           ELSE <<"u", "n", "i", "x", " ", "s", "o", "c", "k", "e", "t", " ",
                                  "i", "n", "o", "d", "e", "=">> \o ToDecimal(e.inode)
               /\ IsNone(f.send_queue) /\ IsNone(f.recv_queue)
SocketMissAsClaimed(f, kind, inode) ==
    /\ f.file_type = "SOCK"
    /\ f.name = (IF kind = "Socket" THEN <<"s", "o", "c", "k", "e", "t">> ELSE <<"n", "e", "t">>)
                \o <<":", "[">> \o ToDecimal(inode) \o <<"]">>
    /\ IsNone(f.send_queue) /\ IsNone(f.recv_queue)

\* C16: a numbered descriptor whose target is a socket or net inode has, when
\* the inode is in a kernel table read for this call, type IPv4 (TCP, UDP),
\* IPv6 (TCP6, UDP6) or unix, the name "<laddr>:<lport> -> <raddr>:<rport>
\* (<TCP state | UDP | UDP6>)" (unix: the bound path, or "unix socket
\* inode=<n>") and the queue depths of that row; when the inode is in no
\* table that could be read it has type SOCK, the name "socket:[inode]" or
\* "net:[inode]" and no queue depths.
C16_SocketRecords ==
    \A k \in DOMAIN lof_results :
        LET f == lof_results[k]
        IN  (f.fd.kind = "Numbered" /\ FdPool[f.fd.n + 1].kind \in {"Socket", "Net"}) =>
               LET e == FdPool[f.fd.n + 1]
                   hits == {row \in SnapshotRows : row[2].inode = e.inode}
               IN  /\ f.node = ToDecimal(e.inode)
                   /\ \A row \in hits : SocketHitAsClaimed(f, row)
                   /\ hits = {} => SocketMissAsClaimed(f, e.kind, e.inode)
\* /proc/net/tcp could not be read: the TCP socket of descriptor 4 is a miss,
\* the UDP6 socket of descriptor 10 a hit
C16_Witness ==
    /\ Returned
    /\ IsNone(Unwrap(kernel.net).tcp)
    /\ \E i, j \in DOMAIN lof_results :
         /\ lof_results[i].fd.n = 4 /\ lof_results[i].file_type = "SOCK"
         /\ lof_results[j].fd.n = 10 /\ lof_results[j].file_type = "IPv6"
         /\ lof_results[j].recv_queue = Some(4)

\* C17: every record with fd = Numbered(n, m) has mode = Some(m), and m is
\* one of Read, Write, ReadWrite, Unknown, whatever the target of the
\* descriptor is and also under avoid_stat.
C17_NumberedModeAgrees ==
    \A k \in DOMAIN lof_results :
        lof_results[k].fd.kind = "Numbered" =>
            /\ lof_results[k].mode = Some(lof_results[k].fd.mode)
            /\ lof_results[k].fd.mode \in {"Read", "Write", "ReadWrite", "Unknown"}
\* under avoid_stat, a descriptor on a path opened for writing and a pipe
C17_Witness ==
    /\ Returned
    /\ config.avoid_stat
    /\ \E i, j \in DOMAIN lof_results :
         /\ lof_results[i].fd = Numbered(1, "Write") /\ lof_results[i].name = PathDangling
         /\ lof_results[j].file_type = "PIPE"

(***************************************************************************)
(* The printers on their own: run_once with every formatter setting, on    *)
(* processes with and without ppid, with a pgid that is not the pid, and   *)
(* with a command longer than the default width.                           *)
(***************************************************************************)
PrintProcPool ==
    <<Proc(1, None, Some(1), <<"s", "h">>, UserRoot, 0),
      Proc(2, Some(1), Some(1), <<"l", "o", "n", "g", "c", "o", "m", "m", "a", "n", "d">>,
           UserWww, 3)>>

\* the values given to -F
FieldStrings ==
    {<< >>, <<"p", "c", "u", "R", "g", "f", "t", "D", "s", "i", "n">>, <<"p", "p">>,
     <<"n", "z", "c">>, <<"g">>}

\* the command lines: -F, +c / --cmd-width 3 or 12, -R, -l
PrintArgs ==
    {[NoArgs EXCEPT !.field_output = f, !.cmd_width = w, !.show_ppid = r, !.list_uid = l] :
       f \in OptionOf(FieldStrings), w \in OptionOf({3, 12}),
       r \in BOOLEAN, l \in BOOLEAN}

InitPrint ==
    /\ args \in PrintArgs
    /\ ktable \in SubSeqs(PrintProcPool, Len(PrintProcPool))
    /\ pc = "start"
    /\ cfg = None
    /\ procs = << >>
    /\ idx = 0
    /\ calls = << >>
    /\ out = << >>
    /\ ProviderIdle
    /\ OthersIdle

NextPrint ==
    \/ FromCliOk
    \/ ListProcesses
    \/ RetainProcesses
    \/ ListOpenFilesOk
    \/ ListOpenFilesErr
    \/ Prune
    \/ PrintFieldOutput
    \/ PrintColumnar
    \/ Exit

SpecPrint == InitPrint /\ [][NextPrint]_vars

(***************************************************************************)
(* Properties of the printers.                                             *)
(***************************************************************************)
\* the tag letter of a field line
Tag(line) == Head(line.cols[1])

\* C18: in -F output the g line of a process carries the pgid of that
\* process, not its pid.
C18_GroupFieldIsPgid ==
    \A k \in DOMAIN out :
        (out[k].kind = "field" /\ Tag(out[k]) = "g") =>
            \E i \in DOMAIN procs :
                /\ procs[i].pid = out[k].pid
                /\ out[k].cols[1] = <<"g">> \o ToDecimal(Unwrap(procs[i].pgid))

\* the letters of a field string, each at its first occurrence only
SelectedLetters(fields) ==
    LET first == [i \in DOMAIN fields |-> \A j \in 1..(i - 1) : fields[j] # fields[i]]
    IN  [k \in 1..Cardinality(Marked(first)) |-> fields[KthMarked(first, k)]]
\* the process-level line of a selected letter: p pid, c comm, u user or
\* uid, R ppid (none when absent), g pgid
ClaimedProcessLines(fmt, proc, ch) ==
    CASE ch = "p" -> <<Line("field", proc.pid, <<<<"p">> \o ToDecimal(proc.pid)>>)>>
      [] ch = "c" -> <<Line("field", proc.pid, <<<<"c">> \o proc.comm>>)>>
      [] ch = "u" -> <<Line("field", proc.pid,
                            <<<<"u">> \o (IF fmt.list_uid THEN ToDecimal(proc.uid)
                                          ELSE proc.user)>>)>>
      [] ch = "R" -> IF IsSome(proc.ppid)
                     THEN <<Line("field", proc.pid,
                                 <<<<"R">> \o ToDecimal(Unwrap(proc.ppid))>>)>>
                     ELSE << >>
      [] ch = "g" -> <<Line("field", proc.pid, <<<<"g">> \o ToDecimal(Unwrap(proc.pgid))>>)>>
      [] OTHER -> << >>
\* the file-level line of a selected letter: f fd, t type, D device, s size
\* (none when absent), i node, n name
ClaimedFileLines(proc, file, ch) ==
    CASE ch = "f" -> <<Line("field", proc.pid, <<<<"f">> \o FdText(file.fd)>>)>>
      [] ch = "t" -> <<Line("field", proc.pid, <<<<"t">> \o FileTypeText(file.file_type)>>)>>
      [] ch = "D" -> <<Line("field", proc.pid, <<<<"D">> \o file.device>>)>>
      [] ch = "s" -> IF IsSome(file.size_off)
                     THEN <<Line("field", proc.pid,
                                 <<<<"s">> \o ToDecimal(Unwrap(file.size_off))>>)>>
                     ELSE << >>
      [] ch = "i" -> <<Line("field", proc.pid, <<<<"i">> \o file.node>>)>>
      [] ch = "n" -> <<Line("field", proc.pid, <<<<"n">> \o file.name>>)>>
      [] OTHER -> << >>
\* the lines of one process: its process-level lines once, then the
\* file-level lines of each descriptor in list order
ClaimedFieldOutput(fmt, proc) ==
    LET letters == SelectedLetters(Unwrap(fmt.field_output))
    IN  Flatten([k \in DOMAIN letters |-> ClaimedProcessLines(fmt, proc, letters[k])])
        \o Flatten([j \in DOMAIN proc.open_files |->
                      Flatten([k \in DOMAIN letters |->
                                 ClaimedFileLines(proc, proc.open_files[j], letters[k])])])

\* C19: in -F mode each process emits every selected process-level line (p,
\* c, u, R, g) exactly once and before its file-level lines, then for each
\* descriptor in list order the selected file-level lines (f, t, D, s, i, n);
\* R is left out when ppid is absent and s when the size is absent; every
\* line is the tag letter followed by the value; other letters emit nothing.
C19_FieldLinesOncePerProcess ==
    (Printed /\ OutputMode(Formatter(args)) = "field") =>
        out = Flatten([k \in DOMAIN procs |-> ClaimedFieldOutput(Formatter(args), procs[k])])

\* the command of the process a row is printed for
CommandOf(pid) == procs[CHOOSE i \in DOMAIN procs : procs[i].pid = pid].comm

\* C20: in columnar mode with command width cw (9, or the value of +c /
\* --cmd-width) the command column is exactly cw bytes wide in the header, in
\* every data row and in every placeholder row; a longer command is cut to
\* its first cw bytes, a shorter one padded with spaces.
C20_CommandColumnWidth ==
    (Printed /\ OutputMode(Formatter(args)) = "columnar") =>
        \A k \in DOMAIN out :
            LET cw == IF IsSome(args.cmd_width) THEN Unwrap(args.cmd_width) ELSE 9
                column == out[k].cols[1]
            IN  /\ Len(column) = cw
                /\ out[k].kind \in {"file", "placeholder"} =>
                     \A i \in 1..cw :
                        column[i] = IF i <= Len(CommandOf(out[k].pid))
                                    THEN CommandOf(out[k].pid)[i] ELSE " "

(***************************************************************************)
(* The printers with -T: descriptors that carry queue depths.              *)
(***************************************************************************)
\* a socket descriptor with its queue depths
Socket(fd, type, node, name, sq, rq) ==
    [File(fd, type, << >>, None, node, name) EXCEPT !.send_queue = sq, !.recv_queue = rq]

\* the descriptors the provider reports: both depths, one depth, another type
QueueFilePool ==
    <<Socket(Numbered(3, "ReadWrite"), "IPv4", <<"1", "1">>, <<"a", ":", "8", "0">>,
             Some(1), Some(2)),
      Socket(Numbered(4, "ReadWrite"), "IPv6", <<"1", "3">>, <<":", ":", ":", "5", "3">>,
             Some(10), Some(0)),
      Socket(Numbered(5, "Read"), "IPv4", <<"1", "2">>, <<"b", ":", "9">>, None, Some(3)),
      Socket(Numbered(6, "Write"), "unix", <<"1", "4">>, <<"/", "s">>, Some(4), Some(5)),
      File(Numbered(7, "Read"), "REG", <<"8", ",", "1">>, Some(2), <<"7">>, <<"/", "a">>)>>
QueueFileLists == SubSeqs(QueueFilePool, MaxFiles)

\* the command lines: -T without value (s), -T q, -T sq, -T s; -F n, -F fn; -R
QueueArgs ==
    {[NoArgs EXCEPT !.tcp_info = t, !.field_output = f, !.show_ppid = r] :
       t \in OptionOf({<<"s">>, <<"q">>, <<"s", "q">>}),
       f \in OptionOf({<<"n">>, <<"f", "n">>}), r \in BOOLEAN}

InitQueue ==
    /\ args \in QueueArgs
    /\ ktable \in {SubSeq(ProcPool, 1, n) : n \in 1..Len(ProcPool)}
    /\ pc = "start"
    /\ cfg = None
    /\ procs = << >>
    /\ idx = 0
    /\ calls = << >>
    /\ out = << >>
    /\ ProviderIdle
    /\ OthersIdle

ListQueueFilesOk == ListOpenFilesFrom(QueueFileLists)

NextQueue ==
    \/ FromCliOk
    \/ ListProcesses
    \/ RetainProcesses
    \/ ListQueueFilesOk
    \/ Prune
    \/ PrintFieldOutput
    \/ PrintColumnar
    \/ Exit

SpecQueue == InitQueue /\ [][NextQueue]_vars

\* the names on stdout, in order: the NAME column of the rows, the n lines
EmittedNames ==
    LET named == SelectSeq(out, LAMBDA l : l.kind = "file"
                                           \/ (l.kind = "field" /\ Tag(l) = "n"))
    IN  [k \in DOMAIN named |->
           IF named[k].kind = "file" THEN named[k].cols[Len(named[k].cols)]
           ELSE Tail(named[k].cols[1])]

\* the descriptors of the processes printed, in order
PrintedFiles == Flatten([k \in DOMAIN procs |-> procs[k].open_files])

\* C21: with q in the value of -T, the name of every IPv4 or IPv6 descriptor
\* that has both queue depths is emitted with " QR=<rx> QS=<tx>" appended, in
\* the rows and in the n lines of -F alike; every other name is emitted as it
\* is.
C21_QueueSuffixInEveryOutput ==
    pc \in {"printed", "exit0"} =>
        /\ Len(EmittedNames) = Len(PrintedFiles)
        /\ \A k \in DOMAIN PrintedFiles :
             LET file == PrintedFiles[k]
                 suffixed == /\ IsSome(args.tcp_info)
                             /\ \E i \in DOMAIN Unwrap(args.tcp_info) :
                                  Unwrap(args.tcp_info)[i] = "q"
                             /\ file.file_type \in {"IPv4", "IPv6"}
                             /\ IsSome(file.recv_queue) /\ IsSome(file.send_queue)
             IN  EmittedNames[k] =
                   IF suffixed
                   THEN file.name \o <<" ", "Q", "R", "=">>
                        \o ToDecimal(Unwrap(file.recv_queue))
                        \o <<" ", "Q", "S", "=">>
                        \o ToDecimal(Unwrap(file.send_queue))
                   ELSE file.name

\* the same statement for the rows of the columnar output alone
QueueSuffixInRows ==
    OutputMode(Formatter(args)) = "columnar" => C21_QueueSuffixInEveryOutput

(***************************************************************************)
(* The -s and -i values and matches_file on their own: from_cli on a       *)
(* command line, then one call of matches_file on a descriptor.            *)
(***************************************************************************)
\* the parts of a -s value: sign, digits, suffix
SizeSigns == {<< >>, <<"+">>, <<"-">>}
\* 2, 2^54 - 1, 2^54, u64::MAX, u64::MAX + 1
SizeNumbers ==
    {<<"2">>,
     <<"1", "8", "0", "1", "4", "3", "9", "8", "5", "0", "9", "4", "8", "1", "9", "8", "3">>,
     <<"1", "8", "0", "1", "4", "3", "9", "8", "5", "0", "9", "4", "8", "1", "9", "8", "4">>,
     <<"1", "8", "4", "4", "6", "7", "4", "4", "0", "7", "3", "7", "0", "9", "5", "5", "1", "6", "1", "5">>,
     <<"1", "8", "4", "4", "6", "7", "4", "4", "0", "7", "3", "7", "0", "9", "5", "5", "1", "6", "1", "6">>}
SizeSuffixes == {<< >>, <<"k">>, <<"K", "B">>, <<"m">>, <<"M", "b">>, <<"G">>, <<"g", "b">>,
                 <<"x">>}
SizeValues == {a \o n \o x : a \in SizeSigns, n \in SizeNumbers, x \in SizeSuffixes}

\* the parts of a -i value: version digit, protocol, @host, :port
InetVersions == {<< >>, <<"4">>, <<"6">>}
InetProtocols == {<< >>, <<"t", "c", "p">>, <<"U", "D", "P">>}
InetHosts == {<< >>, <<"@">>, <<"@", "a">>}
InetPorts == {<< >>, <<":">>, <<":", "8", "0">>, <<":", "6", "5", "5", "3", "6">>,
              <<":", "x">>}
InetValues ==
    {v \o p \o h \o n : v \in InetVersions, p \in InetProtocols, h \in InetHosts,
                        n \in InetPorts}

\* the command lines: -s with or without a plain -i, or -i alone; -a
FilterArgs ==
    {[NoArgs EXCEPT !.size_filter = z, !.inet = i, !.and_mode = m] :
       z \in OptionOf(SizeValues), i \in OptionOf({<< >>, <<":", "8", "0">>}),
       m \in BOOLEAN}
    \cup {[NoArgs EXCEPT !.inet = Some(i), !.and_mode = m] :
            i \in InetValues, m \in BOOLEAN}

\* the socket map of the procfs provider for NetTables, and a descriptor it
\* builds for a socket inode
ProviderSocket(n, inode) ==
    SocketRecord(build_socket_inode_map(NetTables), Numbered(n, "ReadWrite"), inode)

\* the descriptors handed to matches_file: sockets of each network type with
\* and without the protocol in `node`, files with sizes around the -s value,
\* and the sockets the procfs provider builds
ProbeFiles ==
    {Socket(Numbered(3, "ReadWrite"), "IPv4", <<"T", "C", "P">>, <<"a", ":", "8", "0">>,
            None, None),
     Socket(Numbered(3, "ReadWrite"), "IPv6", <<"u", "d", "p", "6">>,
            <<"b", ":", "8", "0", "8", "0">>, None, None),
     Socket(Numbered(3, "ReadWrite"), "IPv4", <<"1", "1">>, <<"b", ":", "9">>, None, None),
     Socket(Numbered(3, "ReadWrite"), "SOCK", <<"9", "9">>, <<"s", ":", "[", "9", "]">>,
            None, None),
     Socket(Numbered(3, "ReadWrite"), "unix", <<"t", "c", "p">>, <<"/", "a", ":", "8", "0">>,
            None, None),
     File(Numbered(3, "Read"), "REG", <<"8", ",", "1">>, Some(1), <<"t", "c", "p">>,
          <<"/", "a", ":", "8", "0">>),
     File(Numbered(3, "Read"), "REG", <<"8", ",", "1">>, Some(2), <<"7">>, <<"/", "f">>),
     File(Numbered(3, "Read"), "REG", <<"8", ",", "1">>, Some(3), <<"7">>, <<"/", "f">>),
     File(Numbered(3, "Read"), "REG", <<"8", ",", "1">>, Some(2048), <<"7">>, <<"/", "f">>),
     File(Special("Cwd"), "DIR", <<"8", ",", "1">>, None, <<"2">>, <<"/">>)}
    \cup {ProviderSocket(4, inode) : inode \in {11, 12, 13, 14, 16, 99}}

InitFilter ==
    /\ args \in FilterArgs
    /\ ktable = << >>
    /\ pc = "start"
    /\ cfg = None
    /\ procs = << >>
    /\ idx = 0
    /\ calls = << >>
    /\ out = << >>
    /\ ProviderIdle
    /\ OthersIdle

\* filter_config.matches_file(f) on one descriptor
MatchesFile ==
    /\ pc = "run"
    /\ IsNone(probe)
    /\ \E file \in ProbeFiles :
         probe' = Some([file |-> file, accepted |-> matches_file(Unwrap(cfg), file)])
    /\ UNCHANGED <<mvars, pvars, raw_args, processed, app>>

NextFilter ==
    \/ FromCliOk
    \/ FromCliPanic
    \/ MatchesFile

SpecFilter == InitFilter /\ [][NextFilter]_vars

(***************************************************************************)
(* Properties of the -s and -i values and of matches_file.                 *)
(***************************************************************************)
\* the value of a string of digits, and its product with 1024^n, on seven
\* limbs of 16 bits: no product of the model leaves them
RECURSIVE WideValue(_, _)
WideValue(digits, acc) ==
    IF digits = << >> THEN acc
    ELSE WideValue(Tail(digits), SubSeq(MulLimbs(acc, 10, DigitVal(Head(digits))), 1, 7))
RECURSIVE WideTimes1024(_, _)
WideTimes1024(v, n) ==
    IF n = 0 THEN v ELSE WideTimes1024(SubSeq(MulLimbs(v, 1024, 0), 1, 7), n - 1)
Wide(digits, n) == WideTimes1024(WideValue(digits, <<0, 0, 0, 0, 0, 0, 0>>), n)
FitsU64(w) == w[5] = 0 /\ w[6] = 0 /\ w[7] = 0

\* the multiplier a suffix stands for, as a power of 1024; -1 for no multiplier
SuffixPower(suffix) ==
    CASE suffix = << >> -> 0
      [] suffix \in {<<"k">>, <<"K", "B">>} -> 1
      [] suffix \in {<<"m">>, <<"M", "b">>} -> 2
      [] suffix \in {<<"G">>, <<"g", "b">>} -> 3
      [] OTHER -> -1

\* the -s value is sign, digits, suffix, the digits are a u64 and the suffix
\* is one of K, KB, M, MB, G, GB or none
IsSizeSpec(sign, n, suffix) ==
    /\ args.size_filter = Some(sign \o n \o suffix)
    /\ FitsU64(Wide(n, 0))
    /\ SuffixPower(suffix) >= 0

\* the SizeFilter of the claim: the op of the sign, bytes = N x multiplier
SizeFilterAsClaimed(sign, n, suffix) ==
    /\ pc # "panic"
    /\ IsSome(cfg) =>
         /\ IsSome(Unwrap(cfg).size_filter)
         /\ Unwrap(Unwrap(cfg).size_filter).op =
              (CASE sign = <<"+">> -> "GreaterThan" [] sign = <<"-">> -> "LessThan"
                 [] OTHER -> "Exact")
         /\ FitsU64(Wide(n, SuffixPower(suffix)))
         /\ Unwrap(Unwrap(cfg).size_filter).bytes = SubSeq(Wide(n, SuffixPower(suffix)), 1, 4)

\* C22: for a -s value [+|-]N[K|KB|M|MB|G|GB] with N a u64, parse_size_filter
\* gives the op of the sign and bytes = N x multiplier exactly, for every such
\* N and suffix, without wrap-around and without abort.
C22_SizeBytesExact ==
    \A sign \in SizeSigns, n \in SizeNumbers, suffix \in SizeSuffixes :
        IsSizeSpec(sign, n, suffix) => SizeFilterAsClaimed(sign, n, suffix)

\* the same statement for the values whose product fits in 64 bits
SizeBytesExactWhenFits ==
    \A sign \in SizeSigns, n \in SizeNumbers, suffix \in SizeSuffixes :
        (IsSizeSpec(sign, n, suffix) /\ FitsU64(Wide(n, SuffixPower(suffix))))
        => SizeFilterAsClaimed(sign, n, suffix)

\* the descriptor handed to matches_file and the answer
Probed == Unwrap(probe).file
Accepted == Unwrap(probe).accepted

\* size_off against the bytes of the size filter, as the numbers they are:
\* -1, 0, 1 for below, equal, above (sizes stay below 2^16)
SizeAgainst(size, bytes) ==
    IF bytes[2] # 0 \/ bytes[3] # 0 \/ bytes[4] # 0 THEN -1
    ELSE IF size < bytes[1] THEN -1
    ELSE IF size = bytes[1] THEN 0
    ELSE 1

\* the size predicate of the claim
SizePredicate(sf, file) ==
    /\ IsSome(file.size_off)
    /\ CASE sf.op = "GreaterThan" -> SizeAgainst(Unwrap(file.size_off), sf.bytes) = 1
         [] sf.op = "LessThan" -> SizeAgainst(Unwrap(file.size_off), sf.bytes) = -1
         [] OTHER -> SizeAgainst(Unwrap(file.size_off), sf.bytes) = 0

\* C23: a descriptor satisfies the size predicate iff it has a size_off that
\* is above (+), below (-) or equal to (no sign) the bytes of the filter; a
\* descriptor without size_off never does. So matches_file with a size filter
\* answers the predicate when -s is the only file-level filter, the predicate
\* and the other filter's answer in AND mode, the predicate or the other
\* filter's answer in OR mode.
C23_SizePredicateInMatchesFile ==
    (IsSome(probe) /\ IsSome(Unwrap(cfg).size_filter)) =>
        LET c == Unwrap(cfg)
            sized == SizePredicate(Unwrap(c.size_filter), Probed)
        IN  Accepted =
              IF IsNone(c.inet) THEN sized
              ELSE IF c.and_mode THEN inet_matches_file(Unwrap(c.inet), Probed) /\ sized
              ELSE inet_matches_file(Unwrap(c.inet), Probed) \/ sized

\* -s 2 with -i :80 in OR mode on a socket without size_off whose name holds
\* :80: accepted through the inet filter alone
C23_Witness ==
    /\ IsSome(probe)
    /\ IsSome(Unwrap(cfg).size_filter)
    /\ IsSome(Unwrap(cfg).inet)
    /\ ~Unwrap(cfg).and_mode
    /\ IsNone(Probed.size_off)
    /\ Accepted

\* needle occurs in hay as a run of consecutive characters
Occurs(needle, hay) ==
    \E i \in 1..(Len(hay) + 1) :
        /\ i + Len(needle) - 1 <= Len(hay)
        /\ SubSeq(hay, i, i + Len(needle) - 1) = needle

\* the acceptance condition of the claim for filter f
InetAcceptsAsClaimed(f, file) ==
    /\ file.file_type \in {"IPv4", "IPv6", "SOCK", "unix"}
    /\ f.ip_version = Some(4) => file.file_type = "IPv4"
    /\ f.ip_version = Some(6) => file.file_type = "IPv6"
    /\ IsSome(f.protocol) => Occurs(ToUppercase(Unwrap(f.protocol)), ToUppercase(file.node))
    /\ IsSome(f.port) => Occurs(<<":">> \o ToDecimal(Unwrap(f.port)), file.name)
    /\ IsSome(f.host) => Occurs(Unwrap(f.host), file.name)

\* C24: the inet filter accepts a descriptor iff its type is IPv4, IPv6, SOCK
\* or unix, the type is the one of the ip version asked for, the protocol
\* asked for occurs in node whatever the case, ":<port>" occurs in name and
\* the host occurs in name; the filter without components accepts exactly the
\* descriptors of the four types.
C24_InetFilterAcceptance ==
    (IsSome(probe) /\ IsSome(Unwrap(cfg).inet) /\ IsNone(Unwrap(cfg).size_filter)) =>
        /\ Accepted = InetAcceptsAsClaimed(Unwrap(Unwrap(cfg).inet), Probed)
        /\ Unwrap(Unwrap(cfg).inet) = DefaultInet =>
             Accepted = (Probed.file_type \in {"IPv4", "IPv6", "SOCK", "unix"})

\* -i 4tcp@a:80 accepts the IPv4 descriptor with node TCP and name a:80
C24_Witness ==
    /\ IsSome(probe)
    /\ IsNone(Unwrap(cfg).size_filter)
    /\ IsSome(Unwrap(cfg).inet)
    /\ \A x \in {"protocol", "host", "port", "ip_version"} :
         IsSome(Unwrap(Unwrap(cfg).inet)[x])
    /\ Accepted

\* the InetFilter the claim gives for the parts of a -i value
InetFilterAsClaimed(v, p, h, n) ==
    [ip_version |-> CASE v = <<"4">> -> Some(4) [] v = <<"6">> -> Some(6) [] OTHER -> None,
     protocol |-> CASE p = <<"t", "c", "p">> -> Some(<<"T", "C", "P">>)
                    [] p = <<"U", "D", "P">> -> Some(<<"U", "D", "P">>)
                    [] OTHER -> None,
     host |-> IF h = <<"@", "a">> THEN Some(<<"a">>) ELSE None,
     port |-> IF n = <<":", "8", "0">> THEN Some(80) ELSE None]

\* C25: for a -i value [4|6][PROTO][@HOST][:PORT], parse_inet_filter sets the
\* ip version iff the value starts with 4 or 6, the protocol to the text
\* before the first @ or : in upper case, the host to the text between @ and
\* the next : or the end, the port to the 16-bit number after the colon; a
\* part that is absent or empty stays unset, and so does all of the empty
\* value.
C25_InetSpecComponents ==
    \A v \in InetVersions, p \in InetProtocols, h \in InetHosts, n \in InetPorts :
        (IsSome(cfg) /\ args.inet = Some(v \o p \o h \o n)) =>
            Unwrap(cfg).inet = Some(InetFilterAsClaimed(v, p, h, n))

\* -i 6tcp@a:80 has been parsed
C25_Witness ==
    /\ pc = "run"
    /\ args.inet = Some(<<"6", "t", "c", "p", "@", "a", ":", "8", "0">>)
    /\ IsSome(Unwrap(cfg).inet)

\* the protocol an inet filter names for the rows of a socket table
FilterProtocolOf(protocol) ==
    CASE protocol \in {"Tcp", "Tcp6"} -> <<"T", "C", "P">>
      [] protocol \in {"Udp", "Udp6"} -> <<"U", "D", "P">>
      [] OTHER -> << >>

\* C28: a descriptor the procfs provider builds from a row of the tcp or tcp6
\* table is accepted by the inet filter that names the protocol TCP and
\* nothing else, one built from a row of the udp or udp6 table by the filter
\* that names UDP: -i TCP and -i UDP select the sockets of that protocol.
C28_ProviderSocketsMatchProtocol ==
    \A inode \in DOMAIN build_socket_inode_map(NetTables) :
        LET info == build_socket_inode_map(NetTables)[inode]
        IN  (/\ IsSome(probe)
             /\ Probed = ProviderSocket(4, inode)
             /\ info.protocol \in {"Tcp", "Tcp6", "Udp", "Udp6"}
             /\ IsNone(Unwrap(cfg).size_filter)
             /\ Unwrap(cfg).inet =
                  Some([DefaultInet EXCEPT !.protocol = Some(FilterProtocolOf(info.protocol))]))
            => Accepted

(***************************************************************************)
(* cli.rs: preprocess_args, on the tokens of the command line.             *)
(***************************************************************************)
\* at most this many tokens follow the program name
MaxTokens == 4

PlusDirTree == <<"+", "D">>
PlusDir == <<"+", "d">>
PlusCmdWidth == <<"+", "c">>
LongDirTree == <<"-", "-", "d", "i", "r", "-", "t", "r", "e", "e">>
LongDir == <<"-", "-", "d", "i", "r">>
LongCmdWidth == <<"-", "-", "c", "m", "d", "-", "w", "i", "d", "t", "h">>

\* the loop of preprocess_args with every token looked at, the one after a
\* + flag included
RECURSIVE PreprocessRestRescanned(_)
PreprocessRestRescanned(rest) ==
    IF rest = << >> THEN << >>
    ELSE LET arg == Head(rest)
         IN  IF arg \in {PlusDirTree, PlusDir, PlusCmdWidth}
             THEN <<CASE arg = PlusDirTree -> LongDirTree
                      [] arg = PlusDir -> LongDir
                      [] OTHER -> LongCmdWidth>>
                  \o PreprocessRestRescanned(Tail(rest))
             ELSE <<arg>> \o PreprocessRestRescanned(Tail(rest))

\* the `while let Some(arg) = iter.next()` loop of preprocess_args
RECURSIVE PreprocessRest(_)
PreprocessRest(rest) ==
    IF rest = << >> THEN << >>
    ELSE LET arg == Head(rest)
         IN  IF arg \in {PlusDirTree, PlusDir, PlusCmdWidth}
             THEN <<CASE arg = PlusDirTree -> LongDirTree
                      [] arg = PlusDir -> LongDir
                      [] OTHER -> LongCmdWidth>>
                  \o (IF Len(rest) > 1
                      THEN <<rest[2]>> \o PreprocessRest(SubSeq(rest, 3, Len(rest)))
                      ELSE << >>)
             ELSE <<arg>> \o PreprocessRest(Tail(rest))

preprocess_args(tokens) ==
    IF tokens = << >> THEN << >>
    ELSE <<Head(tokens)>> \o PreprocessRest(Tail(tokens))

\* the tokens of the command lines
TokenPool ==
    {PlusDirTree, PlusDir, PlusCmdWidth, <<"+", "x">>, <<"1", "5">>, <<"-", "p">>,
     LongDirTree, LongDir, LongCmdWidth}
RECURSIVE TokenVectors(_)
TokenVectors(n) ==
    IF n = 0 THEN {<< >>}
    ELSE TokenVectors(n - 1)
         \cup {Append(v, t) : v \in {w \in TokenVectors(n - 1) : Len(w) = n - 1},
                              t \in TokenPool}

\* std::env::args(): the program name, then the tokens
CommandLineTokens ==
    {<<prog>> \o v : prog \in {<<"l", "o", "o", "f">>, PlusCmdWidth},
                     v \in TokenVectors(MaxTokens)}

InitArgs ==
    /\ args = NoArgs
    /\ ktable = << >>
    /\ pc = "idle"
    /\ cfg = None
    /\ procs = << >>
    /\ idx = 0
    /\ calls = << >>
    /\ out = << >>
    /\ ProviderIdle
    /\ raw_args \in CommandLineTokens
    /\ processed = None
    /\ probe = << >>
    /\ app = << >>

\* main: let processed = preprocess_args(raw_args)
Preprocess ==
    /\ IsNone(processed)
    /\ processed' = Some(preprocess_args(raw_args))
    /\ UNCHANGED <<mvars, pvars, raw_args, probe, app>>

NextArgs == Preprocess

SpecArgs == InitArgs /\ [][NextArgs]_vars

\* position i of the command line holds the value of a + flag: the token
\* before it is +D, +d or +c, stands after the program name and is not itself
\* such a value
RECURSIVE IsFlagValue(_)
IsFlagValue(i) ==
    /\ i > 2
    /\ raw_args[i - 1] \in {PlusDirTree, PlusDir, PlusCmdWidth}
    /\ ~IsFlagValue(i - 1)

\* the command line with each + flag replaced by its long option
LongForm ==
    [i \in DOMAIN raw_args |->
       IF i = 1 \/ IsFlagValue(i) THEN raw_args[i]
       ELSE CASE raw_args[i] = PlusDirTree -> LongDirTree
              [] raw_args[i] = PlusDir -> LongDir
              [] raw_args[i] = PlusCmdWidth -> LongCmdWidth
              [] OTHER -> raw_args[i]]

\* C26: preprocess_args returns a command line without a token that begins
\* with + as it is, so applying it again changes nothing; after the program
\* name it replaces +D, +d, +c by --dir-tree, --dir, --cmd-width and keeps the
\* next token as the value, and the command line written with the long
\* options and values that are no + flags preprocesses to the same tokens.
C26_PreprocessRewritesPlusFlags ==
    IsSome(processed) =>
        /\ (\A i \in DOMAIN raw_args : Head(raw_args[i]) # "+") =>
             /\ Unwrap(processed) = raw_args
             /\ preprocess_args(Unwrap(processed)) = Unwrap(processed)
        /\ Unwrap(processed) = LongForm
        /\ (\A i \in DOMAIN raw_args :
               IsFlagValue(i) => raw_args[i] \notin {PlusDirTree, PlusDir, PlusCmdWidth})
            => preprocess_args(LongForm) = Unwrap(processed)

\* loof +c 15 -p 15 has been preprocessed
C26_Witness ==
    /\ IsSome(processed)
    /\ raw_args = <<<<"l", "o", "o", "f">>, PlusCmdWidth, <<"1", "5">>, <<"-", "p">>,
                    <<"1", "5">>>>
    /\ Unwrap(processed) = <<<<"l", "o", "o", "f">>, LongCmdWidth, <<"1", "5">>,
                              <<"-", "p">>, <<"1", "5">>>>

(***************************************************************************)
(* The two filter levels in one pass (Spec).                               *)
(***************************************************************************)
\* the process of the kernel's table with this pid passes matches_process
PassedProcessLevel(pid) ==
    \E i \in DOMAIN ktable :
        ktable[i].pid = pid /\ matches_process(Config, ktable[i])

\* what the claim says of a pass, with `active` telling whether a file-level
\* filter is active
ConjunctiveLevels(active) ==
    /\ PastRetain => \A i \in DOMAIN calls : PassedProcessLevel(calls[i].pid)
    /\ Printed =>
         /\ \A k \in DOMAIN out :
              out[k].kind # "header" => PassedProcessLevel(out[k].pid)
         /\ (active /\ ~args.terse) =>
              \A k \in DOMAIN procs : \A j \in DOMAIN procs[k].open_files :
                  matches_file(Config, procs[k].open_files[j])

\* C27: the two levels compose conjunctively whatever -a is: a descriptor is
\* emitted only if its process passed matches_process and, when a file-level
\* filter (inet, dir-tree, dir, names or size) is active, the descriptor
\* passed matches_file; a process rejected at the process level has no line
\* in the output, and list_open_files is never called for it.
C27_LevelsComposeConjunctively == ConjunctiveLevels(AnyFileFilter(Config))

\* the same statement with the size predicate not counted as a file-level
\* filter
LevelsComposeWithoutSize == ConjunctiveLevels(has_file_filters(Config))

(***************************************************************************)
(* The interactive mode: app/state.rs, app/action.rs, run_tui and          *)
(* dispatch_action of main.rs, and what ui::render does to the state.      *)
(***************************************************************************)
\* at most this many characters are typed into the search line
MaxInput == 2
\* page_up and page_down move by ten rows
PageRows == 10
\* detail_item_count on the FileTree tab: open_files.len() + 10
TreeExtraRows == 10

\* AppState::new
AppStateNew(processes) ==
    [mode |-> "Search",
     search_input |-> << >>,
     all_processes |-> processes,
     filtered_indices |-> [k \in 1..Len(processes) |-> k - 1],
     list_state |-> IF processes # << >> THEN Some(0) ELSE None,
     selected_process |-> None,
     detail_tab |-> "OpenFiles",
     file_table_state |-> None,
     tree_list_state |-> None,
     should_quit |-> FALSE,
     match_count |-> Len(processes),
     total_count |-> Len(processes)]

\* the characters of query occur in hay in this order
RECURSIVE IsSubsequence(_, _)
IsSubsequence(query, hay) ==
    IF query = << >> THEN TRUE
    ELSE IF hay = << >> THEN FALSE
    ELSE IF Head(query) = Head(hay) THEN IsSubsequence(Tail(query), Tail(hay))
    ELSE IsSubsequence(query, Tail(hay))

\* update_filter: the indices fuzzy_match keeps for "pid comm user"
MatchingIndices(s) ==
    {k - 1 : k \in {j \in DOMAIN s.all_processes :
                      IsSubsequence(s.search_input,
                                    ToDecimal(s.all_processes[j].pid) \o <<" ">>
                                    \o s.all_processes[j].comm \o <<" ">>
                                    \o s.all_processes[j].user)}}

\* update_filter: the orders the sort by score may leave the matches in; the
\* scores are the matcher's
ScoredOrders(s) ==
    IF s.search_input = << >>
    THEN {[k \in 1..Len(s.all_processes) |-> k - 1]}
    ELSE {f \in [1..Cardinality(MatchingIndices(s)) -> MatchingIndices(s)] :
            \A i, j \in DOMAIN f : i # j => f[i] # f[j]}

\* update_filter, with `filtered` the outcome of the sort
update_filter(s, filtered) ==
    [s EXCEPT !.filtered_indices = filtered,
              !.match_count = Len(filtered),
              !.list_state = IF filtered = << >> THEN None ELSE Some(0)]

\* the states update_filter may leave
UpdateFilterOutcomes(s) == {update_filter(s, f) : f \in ScoredOrders(s)}

\* refresh, for list_processes() = Ok(processes)
refresh(s, processes) ==
    UpdateFilterOutcomes([s EXCEPT !.total_count = Len(processes),
                                   !.all_processes = processes])

\* select_current
select_current(s) ==
    IF /\ IsSome(s.list_state)
       /\ Unwrap(s.list_state) < Len(s.filtered_indices)
       /\ s.filtered_indices[Unwrap(s.list_state) + 1] < Len(s.all_processes)
    THEN [s EXCEPT !.selected_process =
                       Some(s.all_processes[s.filtered_indices[Unwrap(s.list_state) + 1] + 1]),
                   !.mode = "Detail",
                   !.detail_tab = "OpenFiles",
                   !.file_table_state = Some(0),
                   !.tree_list_state = Some(0)]
    ELSE s

go_back(s) == [s EXCEPT !.mode = "Search", !.selected_process = None]

\* next_tab and prev_tab, reset_detail_scroll included
next_tab(s) ==
    [s EXCEPT !.detail_tab = CASE s.detail_tab = "OpenFiles" -> "Network"
                               [] s.detail_tab = "Network" -> "FileTree"
                               [] s.detail_tab = "FileTree" -> "Summary"
                               [] OTHER -> "OpenFiles",
              !.file_table_state = Some(0),
              !.tree_list_state = Some(0)]
prev_tab(s) ==
    [s EXCEPT !.detail_tab = CASE s.detail_tab = "OpenFiles" -> "Summary"
                               [] s.detail_tab = "Network" -> "OpenFiles"
                               [] s.detail_tab = "FileTree" -> "Network"
                               [] OTHER -> "FileTree",
              !.file_table_state = Some(0),
              !.tree_list_state = Some(0)]

\* the % of Rust on i32: the sign of the result is the sign of a
Rem(a, n) == IF a >= 0 THEN a % n ELSE 0 - ((0 - a) % n)

\* search_move without the wrap-around: the selection moves by delta and
\* stops at the first row only
search_moveUnwrapped(s, delta) ==
    IF s.filtered_indices = << >> THEN s
    ELSE LET current == IF IsSome(s.list_state) THEN Unwrap(s.list_state) ELSE 0
         IN  [s EXCEPT !.list_state = Some(IF current + delta < 0 THEN 0
                                           ELSE current + delta)]

search_move(s, delta) ==
    IF s.filtered_indices = << >> THEN s
    ELSE LET len == Len(s.filtered_indices)
             current == IF IsSome(s.list_state) THEN Unwrap(s.list_state) ELSE 0
         IN  [s EXCEPT !.list_state = Some(Rem(Rem(current + delta, len) + len, len))]

\* the descriptors the Network tab shows
NetFiles(proc) == SelectSeq(proc.open_files, LAMBDA f : f.file_type \in NetworkTypes)

detail_item_count(s) ==
    IF IsNone(s.selected_process) THEN 0
    ELSE CASE s.detail_tab = "OpenFiles" -> Len(Unwrap(s.selected_process).open_files)
           [] s.detail_tab = "Network" -> Len(NetFiles(Unwrap(s.selected_process)))
           [] s.detail_tab = "FileTree" ->
                Len(Unwrap(s.selected_process).open_files) + TreeExtraRows
           [] OTHER -> 0

\* (current + delta).clamp(0, len - 1)
Clamp(x, lo, hi) == IF x < lo THEN lo ELSE IF x > hi THEN hi ELSE x

detail_move(s, delta) ==
    LET len == detail_item_count(s)
        tree == IF IsSome(s.tree_list_state) THEN Unwrap(s.tree_list_state) ELSE 0
        table == IF IsSome(s.file_table_state) THEN Unwrap(s.file_table_state) ELSE 0
    IN  IF len = 0 THEN s
        ELSE CASE s.detail_tab = "FileTree" ->
                    [s EXCEPT !.tree_list_state = Some(Clamp(tree + delta, 0, len - 1))]
               [] s.detail_tab = "Summary" -> s
               [] OTHER ->
                    [s EXCEPT !.file_table_state = Some(Clamp(table + delta, 0, len - 1))]

\* move_up, move_down, page_up, page_down
Move(s, delta) == IF s.mode = "Search" THEN search_move(s, delta) ELSE detail_move(s, delta)

\* file_tree::render: the key of the directory line a descriptor is listed
\* under: the name up to its last '/', "/" when that is empty, "(other)"
\* without a '/'
RECURSIVE LastSlash(_)
LastSlash(name) ==
    IF name = << >> THEN 0
    ELSE IF name[Len(name)] = "/" THEN Len(name)
    ELSE LastSlash(SubSeq(name, 1, Len(name) - 1))
DirKey(name) ==
    IF LastSlash(name) = 0 THEN <<"(", "o", "t", "h", "e", "r", ")">>
    ELSE IF LastSlash(name) = 1 THEN <<"/">>
    ELSE SubSeq(name, 1, LastSlash(name) - 1)

\* file_tree::render: the number of items of the list: one line per
\* directory key, one per descriptor
TreeLines(proc) ==
    Cardinality({DirKey(proc.open_files[k].name) : k \in DOMAIN proc.open_files})
    + Len(proc.open_files)

\* render_stateful_widget on a list or table of n rows: the widget leaves the
\* selection as it is, or, depending on the version of the widget library,
\* brings it back into the rows (no selection when there is no row)
StatefulRender(selection, n) ==
    {selection,
     IF n = 0 THEN None
     ELSE IF IsSome(selection) /\ Unwrap(selection) >= n THEN Some(n - 1)
     ELSE selection}

\* ui::render: the states it may leave
render(s) ==
    IF s.mode = "Search"
    THEN {[s EXCEPT !.list_state = x] :
            x \in StatefulRender(s.list_state, Len(s.filtered_indices))}
    ELSE IF IsNone(s.selected_process) THEN {s}
    ELSE LET proc == Unwrap(s.selected_process)
         IN  CASE s.detail_tab = "OpenFiles" ->
                    {[s EXCEPT !.file_table_state = x] :
                       x \in StatefulRender(s.file_table_state, Len(proc.open_files))}
               [] s.detail_tab = "Network" ->
                    IF NetFiles(proc) = << >> THEN {s}
                    ELSE {[s EXCEPT !.file_table_state = x] :
                            x \in StatefulRender(s.file_table_state, Len(NetFiles(proc)))}
               [] s.detail_tab = "FileTree" ->
                    IF proc.open_files = << >> THEN {s}
                    ELSE {[s EXCEPT !.tree_list_state = x] :
                            x \in StatefulRender(s.tree_list_state, TreeLines(proc))}
               [] OTHER -> {s}

\* the characters typed into the search line
SearchChars == {"s", " ", "z"}

\* the descriptors list_open_files reports to the interactive mode
TuiFilePool ==
    <<File(Numbered(3, "Read"), "REG", <<"8", ",", "1">>, Some(2), <<"7">>,
           <<"/", "a", "/", "f">>),
      File(Numbered(4, "Read"), "REG", <<"8", ",", "1">>, Some(2), <<"8">>,
           <<"/", "a", "/", "g">>),
      File(Numbered(5, "ReadWrite"), "IPv4", << >>, None, <<"9">>, <<"h", ":", "8", "0">>)>>
TuiFileLists == SubSeqs(TuiFilePool, MaxFiles)

\* run_tui after AppState::new and ratatui::init
InitTui ==
    /\ args = NoArgs
    /\ ktable = << >>
    /\ pc = "draw"
    /\ cfg = None
    /\ procs = << >>
    /\ idx = 0
    /\ calls = << >>
    /\ out = << >>
    /\ ProviderIdle
    /\ raw_args = << >>
    /\ processed = << >>
    /\ probe = << >>
    /\ app \in {AppStateNew(processes) : processes \in KernelTables}

\* what every step of the interactive mode leaves alone
TuiFrame == UNCHANGED <<args, ktable, cfg, procs, idx, calls, out, pvars, raw_args,
                        processed, probe>>

\* run_tui: terminal.draw(|frame| ui::render(frame, &mut state))
Draw ==
    /\ pc = "draw"
    /\ app' \in render(app)
    /\ pc' = "event"
    /\ TuiFrame

\* run_tui: the end of a turn of the loop, after dispatch_action left s
Dispatched(s) ==
    /\ app' = s
    /\ pc' = IF s.should_quit THEN "restored" ELSE "draw"
    /\ TuiFrame

\* run_tui: a tick, a resize, or a key that maps to no action
Tick ==
    /\ pc = "event"
    /\ Dispatched(app)

\* the keys of map_search_key and map_detail_key, with dispatch_action
Quit ==
    /\ pc = "event"
    /\ Dispatched([app EXCEPT !.should_quit = TRUE])

SearchInput ==
    /\ pc = "event"
    /\ app.mode = "Search"
    /\ Len(app.search_input) < MaxInput
    /\ \E c \in SearchChars :
         \E s \in UpdateFilterOutcomes(
                    [app EXCEPT !.search_input = Append(app.search_input, c)]) :
             Dispatched(s)

SearchBackspace ==
    /\ pc = "event"
    /\ app.mode = "Search"
    /\ \E s \in UpdateFilterOutcomes(
                  [app EXCEPT !.search_input =
                       SubSeq(app.search_input, 1, Len(app.search_input) - 1)]) :
         Dispatched(s)

SearchClear ==
    /\ pc = "event"
    /\ app.mode = "Search"
    /\ \E s \in UpdateFilterOutcomes([app EXCEPT !.search_input = << >>]) :
         Dispatched(s)

MoveUp ==
    /\ pc = "event"
    /\ Dispatched(Move(app, -1))

MoveDown ==
    /\ pc = "event"
    /\ Dispatched(Move(app, 1))

PageUp ==
    /\ pc = "event"
    /\ Dispatched(Move(app, 0 - PageRows))

PageDown ==
    /\ pc = "event"
    /\ Dispatched(Move(app, PageRows))

\* Action::Select: select_current, then list_open_files for the process
\* selected: Ok(files) replaces its descriptors, Err leaves them
Select ==
    /\ pc = "event"
    /\ app.mode = "Search"
    /\ LET s == select_current(app)
       IN  \/ Dispatched(s)
           \/ /\ IsSome(s.selected_process)
              /\ \E files \in TuiFileLists :
                   Dispatched([s EXCEPT !.selected_process =
                                   Some([Unwrap(s.selected_process)
                                           EXCEPT !.open_files = files])])

Back ==
    /\ pc = "event"
    /\ app.mode = "Detail"
    /\ Dispatched(go_back(app))

NextTab ==
    /\ pc = "event"
    /\ app.mode = "Detail"
    /\ Dispatched(next_tab(app))

PrevTab ==
    /\ pc = "event"
    /\ app.mode = "Detail"
    /\ Dispatched(prev_tab(app))

\* Action::Refresh: list_processes() fails and nothing changes, or it
\* returns the kernel's table of the moment
Refresh ==
    /\ pc = "event"
    /\ \/ Dispatched(app)
       \/ \E processes \in KernelTables : \E s \in refresh(app, processes) :
            Dispatched(s)

NextTui ==
    \/ Draw
    \/ Tick
    \/ Quit
    \/ SearchInput
    \/ SearchBackspace
    \/ SearchClear
    \/ MoveUp
    \/ MoveDown
    \/ PageUp
    \/ PageDown
    \/ Select
    \/ Back
    \/ NextTab
    \/ PrevTab
    \/ Refresh

SpecTui == InitTui /\ [][NextTui]_vars

(***************************************************************************)
(* Properties of the interactive mode.                                     *)
(***************************************************************************)
\* the process list and its selection fit together
SearchListConsistent ==
    /\ \A k \in DOMAIN app.filtered_indices :
         app.filtered_indices[k] < Len(app.all_processes)
    /\ app.match_count = Len(app.filtered_indices)
    /\ app.total_count = Len(app.all_processes)
    /\ IsNone(app.list_state) <=> app.filtered_indices = << >>
    /\ IsSome(app.list_state) => Unwrap(app.list_state) < Len(app.filtered_indices)

\* a move in the process list by delta rows ends on the row delta further,
\* counted modulo the length of the list
WrapsBy(delta) ==
    (app.mode = "Search" /\ app.filtered_indices # << >>) =>
        app'.list_state =
          Some((Unwrap(app.list_state) + delta + PageRows * Len(app.filtered_indices))
               % Len(app.filtered_indices))

\* C29: after any sequence of actions from AppState::new, every index of
\* filtered_indices is below the number of processes, match_count and
\* total_count are the lengths of filtered_indices and all_processes, the
\* process list has no selection iff filtered_indices is empty and a selection
\* below its length otherwise, and the moves wrap around modulo that length.
C29_SearchListInvariant ==
    /\ []SearchListConsistent
    /\ [][/\ MoveUp => WrapsBy(-1)
          /\ MoveDown => WrapsBy(1)
          /\ PageUp => WrapsBy(0 - PageRows)
          /\ PageDown => WrapsBy(PageRows)]_vars

\* a search text that keeps both processes, listed in the order of the score
\* and not of the table, with the selection moved to the second row
C29_Witness ==
    /\ app.mode = "Search"
    /\ app.search_input # << >>
    /\ app.filtered_indices = <<1, 0>>
    /\ app.list_state = Some(1)

\* the rows the active tab of the detail view shows
RowsOfActiveTab ==
    LET proc == Unwrap(app.selected_process)
    IN  CASE app.detail_tab = "OpenFiles" -> Len(proc.open_files)
          [] app.detail_tab = "Network" -> Len(NetFiles(proc))
          [] app.detail_tab = "FileTree" -> TreeLines(proc)
          [] OTHER -> 0

\* the selection of the active tab
SelectionOfActiveTab ==
    IF app.detail_tab = "FileTree" THEN app.tree_list_state ELSE app.file_table_state

\* C30: in the detail view, after any sequence of Select, moves and tab
\* changes, the selected row of the active tab exists: its index is below the
\* number of open files on the OpenFiles tab, of network descriptors on the
\* Network tab, of rendered lines (directory lines and file lines) on the
\* FileTree tab; no selection points past the last row or into an empty list.
C30_DetailSelectionInRange ==
    (app.mode = "Detail" /\ IsSome(app.selected_process)
       /\ app.detail_tab # "Summary" /\ IsSome(SelectionOfActiveTab))
    => Unwrap(SelectionOfActiveTab) < RowsOfActiveTab

\* the same statement for the states a draw has left, on the tabs whose
\* widget is not rendered for an empty list
DetailSelectionInRangeOnceDrawn ==
    (pc = "event" /\ IsSome(app.selected_process)
       /\ app.detail_tab \in {"Network", "FileTree"} /\ RowsOfActiveTab = 0)
    => C30_DetailSelectionInRange

\* the same statement for the FileTree tab of a process with descriptors
TreeSelectionInRange ==
    (IsSome(app.selected_process) /\ app.detail_tab = "FileTree" /\ RowsOfActiveTab > 0)
    => C30_DetailSelectionInRange
====
